---- MODULE Spec2Model ----
(***************************************************************************)
(* PaddlePanic: the game controller's frame function                       *)
(* (update_game_controller) together with the physics layer it drives      *)
(* (move, update, check_collision, collision_bounce).  One step of the     *)
(* model is one call of update_game_controller with one sample of the      *)
(* input controller.                                                       *)
(***************************************************************************)
EXTENDS Integers, Sequences, FiniteSets, TLC

(***************************************************************************)
(* Configuration (game_controller.h, 128x64 build)                         *)
(***************************************************************************)
SCREEN_WIDTH == 128
SCREEN_HEIGHT == 64
WALL_THICKNESS == 2
PADDLE_LENGTH == 20
PADDLE_WIDTH == 2
PADDLE_MARGIN == 3
BALL_RADIUS == 3
JOYSTICK_DEADZONE == 10
MAX_PADDLE_SPEED == 8
PADDLE_SPEED_BOOST_MULTIPLIER == 2
PADDLE_ACCELERATION == 2
PADDLE_COLLISION_COOLDOWN_FRAMES == 8
PADDLE_DEFLECTION_LOW == 512
PADDLE_DEFLECTION_MID == 1536
PADDLE_SPEED_LOW == 2
PADDLE_SPEED_MID == 4
PADDLE_SPEED_HIGH == 8
COUNTDOWN_FRAMES == 36
ADC_CENTER == 2048

(***************************************************************************)
(* Bounds of the exploration                                               *)
(***************************************************************************)
\* a round is followed until this many paddle hits have been scored
MaxScore == 3

\* calls made on one physics object in a row
MaxOps == 3
\* the joystick reads 4095 - 3 * k along X, k in 0..SeedSpread
SeedSpread == 1

(***************************************************************************)
(* C integer types                                                         *)
(***************************************************************************)
ToUint8(n) == n % 256

ToInt8(n) == LET m == n % 256 IN IF m > 127 THEN m - 256 ELSE m

ToUint16(n) == n % 65536

ToInt16(n) == LET m == n % 65536 IN IF m > 32767 THEN m - 65536 ELSE m

\* C division truncates toward zero
CDiv(a, b) == IF a >= 0 THEN a \div b ELSE -((-a) \div b)

Abs(n) == IF n < 0 THEN -n ELSE n

Pt(x, y) == [x |-> x, y |-> y]

(***************************************************************************)
(* Physics layer (physics.c)                                               *)
(***************************************************************************)
CircleShape(radius) ==
    [type |-> "circle", radius |-> radius, width |-> 0, height |-> 0,
     anchor |-> "none"]

RectShape(width, height, anchor) ==
    [type |-> "rect", radius |-> 0, width |-> width, height |-> height,
     anchor |-> anchor]

\* the object after init_physics: origin is visual->origin, shape is
\* visual->shape_data
init_physics(position, velocity, shape, callback) ==
    [position |-> position, velocity |-> velocity,
     acceleration |-> Pt(0, 0), origin |-> position, shape |-> shape,
     on_collision |-> callback, collision_enabled |-> 1]

\* a PhysicsObject pointer that is NULL
NULL == [null |-> TRUE]

\* visual == NULL: the object has no shape (after destroy)
NoShape ==
    [type |-> "none", radius |-> 0, width |-> 0, height |-> 0,
     anchor |-> "none"]

destroy(obj) == IF obj = NULL THEN obj ELSE [obj EXCEPT !.shape = NoShape]

\* move that leaves the origin of the shape behind
move_without_sync(obj, delta) ==
    IF obj = NULL THEN obj
    ELSE [obj EXCEPT !.position = Pt(ToUint8(obj.position.x + delta.x),
                                     ToUint8(obj.position.y + delta.y))]

move(obj, delta) ==
    IF obj = NULL THEN obj
    ELSE LET p == Pt(ToUint8(obj.position.x + delta.x),
                     ToUint8(obj.position.y + delta.y))
         IN  [obj EXCEPT !.position = p,
                         !.origin = IF obj.shape = NoShape THEN @ ELSE p]

update(obj) == IF obj = NULL THEN obj ELSE move(obj, obj.velocity)

set_physics_position(obj, new_position) ==
    IF obj = NULL THEN obj
    ELSE [obj EXCEPT !.position = new_position,
                     !.origin = IF obj.shape = NoShape THEN @
                                ELSE new_position]

set_physics_velocity(obj, new_velocity) ==
    IF obj = NULL THEN obj ELSE [obj EXCEPT !.velocity = new_velocity]

get_physics_position(obj) == IF obj = NULL THEN Pt(0, 0) ELSE obj.position

get_physics_velocity(obj) == IF obj = NULL THEN Pt(0, 0) ELSE obj.velocity

set_physics_collision_enabled(obj, enabled) ==
    IF obj = NULL THEN obj ELSE [obj EXCEPT !.collision_enabled = enabled]

\* get_physics_collision_enabled that reports an absent object as enabled
get_physics_collision_enabled_default_on(obj) ==
    IF obj = NULL THEN 1 ELSE obj.collision_enabled

get_physics_collision_enabled(obj) ==
    IF obj = NULL THEN 0 ELSE obj.collision_enabled

\* the corners of a rectangle, resolved from its anchor into Point (uint8_t)
RectCorners(origin, rect) ==
    CASE rect.anchor = "top_left" ->
            [left |-> origin.x, top |-> origin.y,
             right |-> ToUint8(origin.x + rect.width),
             bottom |-> ToUint8(origin.y + rect.height)]
      [] rect.anchor = "bottom_left" ->
            [left |-> origin.x, top |-> ToUint8(origin.y - rect.height),
             right |-> ToUint8(origin.x + rect.width),
             bottom |-> origin.y]
      [] rect.anchor = "center" ->
            [left |-> ToUint8(origin.x - CDiv(rect.width, 2)),
             top |-> ToUint8(origin.y - CDiv(rect.height, 2)),
             right |-> ToUint8(origin.x + CDiv(rect.width, 2)),
             bottom |-> ToUint8(origin.y + CDiv(rect.height, 2))]

\* the 16-bit variant with the squares kept in 8 bits
check_circle_circle_collision_16_in_int8(obj1, obj2) ==
    LET dx == ToInt16(obj1.position.x - obj2.position.x)
        dy == ToInt16(obj1.position.y - obj2.position.y)
        distance_squared == ToInt8(dx * dx + dy * dy)
        radius_sum == ToInt16(obj1.shape.radius + obj2.shape.radius)
        radius_sum_squared == ToInt8(radius_sum * radius_sum)
    IN  distance_squared <= radius_sum_squared

\* the variant of physics.c with int16_t accumulators: the squares and
\* their sum are converted to int16_t
check_circle_circle_collision_16(obj1, obj2) ==
    LET dx == ToInt16(obj1.position.x - obj2.position.x)
        dy == ToInt16(obj1.position.y - obj2.position.y)
        distance_squared == ToInt16(dx * dx + dy * dy)
        radius_sum == ToInt16(obj1.shape.radius + obj2.shape.radius)
        radius_sum_squared == ToInt16(radius_sum * radius_sum)
    IN  distance_squared <= radius_sum_squared

\* check_circle_circle_collision with the squares kept in 16 bits
check_circle_circle_collision_int16(objA, objB) ==
    check_circle_circle_collision_16(objA, objB)

\* int16_t differences and radius sum; the int32_t squares are integers of
\* the model (TLC's integers are 32 bits wide and stop on overflow)
check_circle_circle_collision(objA, objB) ==
    LET dx == ToInt16(objA.position.x - objB.position.x)
        dy == ToInt16(objA.position.y - objB.position.y)
        distance_squared == dx * dx + dy * dy
        radius_sum == ToInt16(objA.shape.radius + objB.shape.radius)
        radius_sum_squared == radius_sum * radius_sum
    IN  distance_squared <= radius_sum_squared

check_circle_rect_collision(circle_obj, rect_obj) ==
    LET c == RectCorners(rect_obj.origin, rect_obj.shape)
        center == circle_obj.origin
        closest_x == IF center.x < c.left THEN c.left
                     ELSE IF center.x > c.right THEN c.right ELSE center.x
        closest_y == IF center.y < c.top THEN c.top
                     ELSE IF center.y > c.bottom THEN c.bottom ELSE center.y
        dx == ToInt16(center.x - closest_x)
        dy == ToInt16(center.y - closest_y)
        distance_squared == dx * dx + dy * dy
        radius_squared == circle_obj.shape.radius * circle_obj.shape.radius
    IN  distance_squared <= radius_squared

\* check_rect_rect_collision that needs the rectangles to overlap
check_rect_rect_collision_open(objA, objB) ==
    LET a == RectCorners(objA.origin, objA.shape)
        b == RectCorners(objB.origin, objB.shape)
    IN  ~(a.right <= b.left \/ a.left >= b.right \/
          a.bottom <= b.top \/ a.top >= b.bottom)

check_rect_rect_collision(objA, objB) ==
    LET a == RectCorners(objA.origin, objA.shape)
        b == RectCorners(objB.origin, objB.shape)
    IN  ~(a.right < b.left \/ a.left > b.right \/
          a.bottom < b.top \/ a.top > b.bottom)

collision_none(self, other) == self

\* collision_bounce that treats a square like a tall rectangle
collision_bounce_square_negates_x(self, other) ==
    IF other.shape.type = "rect"
    THEN IF other.shape.height >= other.shape.width
         THEN [self EXCEPT !.velocity.x = ToInt8(-self.velocity.x)]
         ELSE [self EXCEPT !.velocity.y = ToInt8(-self.velocity.y)]
    ELSE LET dx == self.position.x - other.position.x
             dy == self.position.y - other.position.y
         IN  IF Abs(dx) > Abs(dy)
             THEN [self EXCEPT !.velocity.x = ToInt8(-self.velocity.x)]
             ELSE [self EXCEPT !.velocity.y = ToInt8(-self.velocity.y)]

\* collision_bounce that picks the axis of the smaller delta
collision_bounce_smaller_delta(self, other) ==
    IF other.shape.type = "rect"
    THEN IF other.shape.height > other.shape.width
         THEN [self EXCEPT !.velocity.x = ToInt8(-self.velocity.x)]
         ELSE [self EXCEPT !.velocity.y = ToInt8(-self.velocity.y)]
    ELSE LET dx == self.position.x - other.position.x
             dy == self.position.y - other.position.y
         IN  IF Abs(dx) < Abs(dy)
             THEN [self EXCEPT !.velocity.x = ToInt8(-self.velocity.x)]
             ELSE [self EXCEPT !.velocity.y = ToInt8(-self.velocity.y)]

collision_bounce(self, other) ==
    IF other.shape.type = "rect"
    THEN IF other.shape.height > other.shape.width
         THEN [self EXCEPT !.velocity.x = ToInt8(-self.velocity.x)]
         ELSE [self EXCEPT !.velocity.y = ToInt8(-self.velocity.y)]
    ELSE LET dx == ToInt16(self.position.x - other.position.x)
             dy == ToInt16(self.position.y - other.position.y)
         IN  IF Abs(dx) > Abs(dy)
             THEN [self EXCEPT !.velocity.x = ToInt8(-self.velocity.x)]
             ELSE [self EXCEPT !.velocity.y = ToInt8(-self.velocity.y)]

\* the collision callbacks of the game controller
wall_hit(self, other) == collision_none(self, other)

paddle_hit(self, other) == collision_none(self, other)

\* ball_hit that does not respond either
ball_hit_passes_through(self, other) == collision_none(self, other)

ball_hit(self, other) == collision_bounce(self, other)

Callback(self, other) ==
    CASE self.on_collision = "ball_hit" -> ball_hit(self, other)
      [] self.on_collision = "paddle_hit" -> paddle_hit(self, other)
      [] self.on_collision = "wall_hit" -> wall_hit(self, other)
      [] OTHER -> self

\* the dispatch without its rectangle-then-circle branch
ShapesInContact_without_rect_circle(objA, objB) ==
    CASE objA.shape.type = "circle" /\ objB.shape.type = "circle" ->
            check_circle_circle_collision(objA, objB)
      [] objA.shape.type = "circle" /\ objB.shape.type = "rect" ->
            check_circle_rect_collision(objA, objB)
      [] objA.shape.type = "rect" /\ objB.shape.type = "rect" ->
            check_rect_rect_collision(objA, objB)
      [] OTHER -> FALSE

\* the geometric test check_collision dispatches to
ShapesInContact(objA, objB) ==
    CASE objA.shape.type = "circle" /\ objB.shape.type = "circle" ->
            check_circle_circle_collision(objA, objB)
      [] objA.shape.type = "circle" /\ objB.shape.type = "rect" ->
            check_circle_rect_collision(objA, objB)
      [] objA.shape.type = "rect" /\ objB.shape.type = "circle" ->
            check_circle_rect_collision(objB, objA)
      [] objA.shape.type = "rect" /\ objB.shape.type = "rect" ->
            check_rect_rect_collision(objA, objB)
      [] OTHER -> FALSE

\* check_collision: the result and both objects after the callbacks
\* (objA's callback runs first and objB's sees objA as it then is)
check_collision(objA, objB) ==
    IF objA = NULL \/ objB = NULL
    THEN [collision |-> FALSE, a |-> objA, b |-> objB]
    ELSE IF objA.shape = NoShape \/ objB.shape = NoShape
    THEN [collision |-> FALSE, a |-> objA, b |-> objB]
    ELSE IF objA.collision_enabled = 0 \/ objB.collision_enabled = 0
    THEN [collision |-> FALSE, a |-> objA, b |-> objB]
    ELSE IF ShapesInContact(objA, objB)
         THEN LET a1 == Callback(objA, objB)
                  b1 == Callback(objB, a1)
              IN  [collision |-> TRUE, a |-> a1, b |-> b1]
         ELSE [collision |-> FALSE, a |-> objA, b |-> objB]

(***************************************************************************)
(* Game controller: helpers (game_controller.c)                            *)
(***************************************************************************)
DIRECTIONS ==
    <<Pt(2, 1), Pt(1, 2), Pt(-1, 2), Pt(-2, 1),
      Pt(-2, -1), Pt(-1, -2), Pt(1, -2), Pt(2, -1)>>

\* generate_random_direction reading the table one entry further on
generate_random_direction_shifted(seed) == DIRECTIONS[((seed + 1) % 8) + 1]

\* seed & 0x07 indexes the table (TLA+ sequences start at 1)
generate_random_direction(seed) == DIRECTIONS[(seed % 8) + 1]

\* normalize_adc whose deadzone ends one count early above the centre
normalize_adc_short_deadzone(raw_value) ==
    LET delta == raw_value - ADC_CENTER
    IN  IF delta < 0 /\ delta > -JOYSTICK_DEADZONE THEN 0
        ELSE IF delta >= 0 /\ delta < JOYSTICK_DEADZONE - 1 THEN 0
        ELSE delta

normalize_adc(raw_value) ==
    LET delta == raw_value - ADC_CENTER
    IN  IF delta < 0 /\ delta > -JOYSTICK_DEADZONE THEN 0
        ELSE IF delta >= 0 /\ delta < JOYSTICK_DEADZONE THEN 0
        ELSE delta

\* map_to_velocity whose middle segment starts again from zero
map_to_velocity_restarts_at_breakpoint(normalized_value) ==
    LET sign == IF normalized_value < 0 THEN -1 ELSE 1
        abs_value == IF normalized_value < 0 THEN -normalized_value
                     ELSE normalized_value
        velocity ==
            IF abs_value < PADDLE_DEFLECTION_LOW
            THEN CDiv(abs_value * PADDLE_SPEED_LOW, PADDLE_DEFLECTION_LOW)
            ELSE IF abs_value < PADDLE_DEFLECTION_MID
            THEN CDiv((abs_value - PADDLE_DEFLECTION_LOW) *
                          (PADDLE_SPEED_MID - PADDLE_SPEED_LOW),
                      PADDLE_DEFLECTION_MID - PADDLE_DEFLECTION_LOW)
            ELSE PADDLE_SPEED_MID +
                 CDiv((abs_value - PADDLE_DEFLECTION_MID) *
                          (PADDLE_SPEED_HIGH - PADDLE_SPEED_MID),
                      2048 - PADDLE_DEFLECTION_MID)
        clamped == IF velocity > MAX_PADDLE_SPEED THEN MAX_PADDLE_SPEED
                   ELSE velocity
    IN  ToInt8(clamped * sign)

map_to_velocity(normalized_value) ==
    LET sign == IF normalized_value < 0 THEN -1 ELSE 1
        abs_value == IF normalized_value < 0 THEN -normalized_value
                     ELSE normalized_value
        velocity ==
            IF abs_value < PADDLE_DEFLECTION_LOW
            THEN CDiv(abs_value * PADDLE_SPEED_LOW, PADDLE_DEFLECTION_LOW)
            ELSE IF abs_value < PADDLE_DEFLECTION_MID
            THEN PADDLE_SPEED_LOW +
                 CDiv((abs_value - PADDLE_DEFLECTION_LOW) *
                          (PADDLE_SPEED_MID - PADDLE_SPEED_LOW),
                      PADDLE_DEFLECTION_MID - PADDLE_DEFLECTION_LOW)
            ELSE PADDLE_SPEED_MID +
                 CDiv((abs_value - PADDLE_DEFLECTION_MID) *
                          (PADDLE_SPEED_HIGH - PADDLE_SPEED_MID),
                      2048 - PADDLE_DEFLECTION_MID)
        clamped == IF velocity > MAX_PADDLE_SPEED THEN MAX_PADDLE_SPEED
                   ELSE velocity
    IN  ToInt8(clamped * sign)

\* smooth_accelerate without the check against the target
smooth_accelerate_overshoots(current, target) ==
    IF current < target THEN ToInt8(current + PADDLE_ACCELERATION)
    ELSE IF current > target THEN ToInt8(current - PADDLE_ACCELERATION)
    ELSE current

\* smooth_accelerate stepping by half the acceleration
smooth_accelerate_slow(current, target) ==
    IF current < target
    THEN LET c == ToInt8(current + PADDLE_ACCELERATION \div 2)
         IN  IF c > target THEN target ELSE c
    ELSE IF current > target
    THEN LET c == ToInt8(current - PADDLE_ACCELERATION \div 2)
         IN  IF c < target THEN target ELSE c
    ELSE current

smooth_accelerate(current, target) ==
    IF current < target
    THEN LET c == ToInt8(current + PADDLE_ACCELERATION)
         IN  IF c > target THEN target ELSE c
    ELSE IF current > target
    THEN LET c == ToInt8(current - PADDLE_ACCELERATION)
         IN  IF c < target THEN target ELSE c
    ELSE current

\* clamp_paddle that leaves the paddle where it is
clamp_paddle_skipped(paddle, min_coord, max_coord, is_horizontal) == paddle

\* clamp_paddle without the test against the lower bound
clamp_paddle_upper_only(paddle, min_coord, max_coord, is_horizontal) ==
    LET pos == get_physics_position(paddle)
        hi(v) == IF v > max_coord THEN max_coord ELSE v
    IN  IF is_horizontal
        THEN set_physics_position(paddle, Pt(hi(pos.x), pos.y))
        ELSE set_physics_position(paddle, Pt(pos.x, hi(pos.y)))

clamp_paddle(paddle, min_coord, max_coord, is_horizontal) ==
    LET pos == get_physics_position(paddle)
        lo(v) == IF v < min_coord THEN min_coord ELSE v
        hi(v) == IF v > max_coord THEN max_coord ELSE v
    IN  IF is_horizontal
        THEN set_physics_position(paddle, Pt(hi(lo(pos.x)), pos.y))
        ELSE set_physics_position(paddle, Pt(pos.x, hi(lo(pos.y))))

\* target_velocity whose clamp after the boost is that of the curve
target_velocity_clamped_to_max_speed(raw_value, button2_pressed) ==
    LET t == map_to_velocity(-normalize_adc(raw_value))
        boosted == ToInt8(t * PADDLE_SPEED_BOOST_MULTIPLIER)
    IN  IF button2_pressed = 1
        THEN IF boosted > MAX_PADDLE_SPEED THEN MAX_PADDLE_SPEED
             ELSE IF boosted < -MAX_PADDLE_SPEED THEN -MAX_PADDLE_SPEED
             ELSE boosted
        ELSE t

\* the target velocity of one axis: curve, then the boost of button 2
target_velocity(raw_value, button2_pressed) ==
    LET t == map_to_velocity(-normalize_adc(raw_value))
        boosted == ToInt8(t * PADDLE_SPEED_BOOST_MULTIPLIER)
    IN  IF button2_pressed = 1
        THEN IF boosted > 127 THEN 127
             ELSE IF boosted < -127 THEN -127 ELSE boosted
        ELSE t

(***************************************************************************)
(* Game controller: initialization                                         *)
(***************************************************************************)
h_paddle_y_top == WALL_THICKNESS + PADDLE_MARGIN + CDiv(PADDLE_WIDTH, 2)

h_paddle_y_bottom ==
    SCREEN_HEIGHT - 1 - WALL_THICKNESS - PADDLE_MARGIN - CDiv(PADDLE_WIDTH, 2)

v_paddle_x_left == WALL_THICKNESS + PADDLE_MARGIN + CDiv(PADDLE_WIDTH, 2)

v_paddle_x_right ==
    SCREEN_WIDTH - 1 - WALL_THICKNESS - PADDLE_MARGIN - CDiv(PADDLE_WIDTH, 2)

h_paddle_min_x ==
    v_paddle_x_left + CDiv(PADDLE_WIDTH, 2) + CDiv(PADDLE_LENGTH, 2)

h_paddle_max_x ==
    v_paddle_x_right - CDiv(PADDLE_WIDTH, 2) - CDiv(PADDLE_LENGTH, 2)

v_paddle_min_y ==
    h_paddle_y_top + CDiv(PADDLE_WIDTH, 2) + CDiv(PADDLE_LENGTH, 2)

v_paddle_max_y ==
    h_paddle_y_bottom - CDiv(PADDLE_WIDTH, 2) - CDiv(PADDLE_LENGTH, 2)

Paddle == 0..3

\* walls[0..3]: top, bottom, left, right
walls ==
    [i \in 0..3 |->
        CASE i = 0 -> init_physics(Pt(0, 0), Pt(0, 0),
                          RectShape(SCREEN_WIDTH, WALL_THICKNESS, "top_left"),
                          "wall_hit")
          [] i = 1 -> init_physics(Pt(0, SCREEN_HEIGHT - WALL_THICKNESS),
                          Pt(0, 0),
                          RectShape(SCREEN_WIDTH, WALL_THICKNESS, "top_left"),
                          "wall_hit")
          [] i = 2 -> init_physics(Pt(0, 0), Pt(0, 0),
                          RectShape(WALL_THICKNESS, SCREEN_HEIGHT, "top_left"),
                          "wall_hit")
          [] i = 3 -> init_physics(Pt(SCREEN_WIDTH - WALL_THICKNESS, 0),
                          Pt(0, 0),
                          RectShape(WALL_THICKNESS, SCREEN_HEIGHT, "top_left"),
                          "wall_hit")]

\* paddles[0..3]: top, bottom, left, right, all centred
InitPaddles ==
    [i \in Paddle |->
        CASE i = 0 -> init_physics(Pt(SCREEN_WIDTH \div 2, h_paddle_y_top),
                          Pt(0, 0),
                          RectShape(PADDLE_LENGTH, PADDLE_WIDTH, "center"),
                          "paddle_hit")
          [] i = 1 -> init_physics(Pt(SCREEN_WIDTH \div 2, h_paddle_y_bottom),
                          Pt(0, 0),
                          RectShape(PADDLE_LENGTH, PADDLE_WIDTH, "center"),
                          "paddle_hit")
          [] i = 2 -> init_physics(Pt(v_paddle_x_left, SCREEN_HEIGHT \div 2),
                          Pt(0, 0),
                          RectShape(PADDLE_WIDTH, PADDLE_LENGTH, "center"),
                          "paddle_hit")
          [] i = 3 -> init_physics(Pt(v_paddle_x_right, SCREEN_HEIGHT \div 2),
                          Pt(0, 0),
                          RectShape(PADDLE_WIDTH, PADDLE_LENGTH, "center"),
                          "paddle_hit")]

BallCenter == Pt(SCREEN_WIDTH \div 2, SCREEN_HEIGHT \div 2)

InitBall ==
    init_physics(BallCenter, Pt(0, 0), CircleShape(BALL_RADIUS), "ball_hit")

\* the GameController after init_game_controller
init_game_controller ==
    [state |-> "Title", score |-> 0, final_score |-> 0,
     paddle_collision_cooldown |-> [i \in Paddle |-> 0],
     paddle_current_velocity_x |-> 0, paddle_current_velocity_y |-> 0,
     paused_ball_velocity |-> Pt(0, 0), countdown_timer |-> 0,
     button1_prev_state |-> 0,
     paddles |-> InitPaddles, ball |-> InitBall]

(***************************************************************************)
(* Game controller: one frame (update_game_controller)                     *)
(***************************************************************************)
\* the new current velocity of one axis: the current one accelerated
\* toward the target velocity of the sample
accelerate_axis(current, raw_value, button2_pressed) ==
    smooth_accelerate(current, target_velocity(raw_value, button2_pressed))

\* the input-to-motion pipeline: target velocities, smooth acceleration,
\* paddle velocities, paddle update, clamp to the movement bounds
paddle_pipeline(ctrl, raw_x, raw_y, button2_pressed) ==
    LET vx == accelerate_axis(ctrl.paddle_current_velocity_x, raw_x,
                              button2_pressed)
        vy == accelerate_axis(ctrl.paddle_current_velocity_y, raw_y,
                              button2_pressed)
        moved(i) ==
            update(set_physics_velocity(ctrl.paddles[i],
                       IF i \in {0, 1} THEN Pt(vx, 0) ELSE Pt(0, vy)))
        clamped(i) ==
            IF i \in {0, 1}
            THEN clamp_paddle(moved(i), h_paddle_min_x, h_paddle_max_x, TRUE)
            ELSE clamp_paddle(moved(i), v_paddle_min_y, v_paddle_max_y, FALSE)
    IN  [ctrl EXCEPT !.paddle_current_velocity_x = vx,
                     !.paddle_current_velocity_y = vy,
                     !.paddles = [i \in Paddle |-> clamped(i)]]

\* button1_pressed: the rising edge of the primary button
button_edge(button1_current, prev_state) ==
    button1_current = 1 /\ prev_state = 0

\* state_title without the score reset
state_title_keeps_score(ctrl, button1_pressed) ==
    IF button1_pressed
    THEN [ctrl EXCEPT
            !.ball = set_physics_velocity(
                         set_physics_position(@, BallCenter), Pt(0, 0)),
            !.paddle_collision_cooldown = [i \in Paddle |-> 0],
            !.state = "BallAtRest"]
    ELSE ctrl

state_title(ctrl, button1_pressed) ==
    IF button1_pressed
    THEN [ctrl EXCEPT
            !.score = 0,
            !.ball = set_physics_velocity(
                         set_physics_position(@, BallCenter), Pt(0, 0)),
            !.paddle_collision_cooldown = [i \in Paddle |-> 0],
            !.state = "BallAtRest"]
    ELSE ctrl

state_ball_at_rest(ctrl, button1_pressed, seed) ==
    IF button1_pressed
    THEN [ctrl EXCEPT
            !.ball = set_physics_velocity(@, generate_random_direction(seed)),
            !.state = "BallMoving"]
    ELSE ctrl

\* paddle_check scoring two points per hit
paddle_check_scores_two(ctrl, i) ==
    IF ctrl.paddle_collision_cooldown[i] = 0
    THEN LET r == check_collision(ctrl.ball, ctrl.paddles[i])
         IN  IF r.collision
             THEN [ctrl EXCEPT
                     !.ball = r.a, !.paddles[i] = r.b,
                     !.score = ToUint16(@ + 2),
                     !.paddle_collision_cooldown[i] =
                         PADDLE_COLLISION_COOLDOWN_FRAMES]
             ELSE ctrl
    ELSE ctrl

\* one iteration of the paddle loop: test paddle i if its cooldown is 0
paddle_check(ctrl, i) ==
    IF ctrl.paddle_collision_cooldown[i] = 0
    THEN LET r == check_collision(ctrl.ball, ctrl.paddles[i])
         IN  IF r.collision
             THEN [ctrl EXCEPT
                     !.ball = r.a, !.paddles[i] = r.b,
                     !.score = ToUint16(@ + 1),
                     !.paddle_collision_cooldown[i] =
                         PADDLE_COLLISION_COOLDOWN_FRAMES]
             ELSE ctrl
    ELSE ctrl

\* wall_check that does not record final_score
wall_check_keeps_final_score(ctrl, i) ==
    IF ctrl.state = "GameOver"
    THEN ctrl
    ELSE LET r == check_collision(ctrl.ball, walls[i])
         IN  IF r.collision
             THEN [ctrl EXCEPT
                     !.ball = set_physics_velocity(r.a, Pt(0, 0)),
                     !.state = "GameOver"]
             ELSE ctrl

\* wall_check that ends the round without stopping the ball
wall_check_keeps_ball_moving(ctrl, i) ==
    IF ctrl.state = "GameOver"
    THEN ctrl
    ELSE LET r == check_collision(ctrl.ball, walls[i])
         IN  IF r.collision
             THEN [ctrl EXCEPT
                     !.final_score = ctrl.score,
                     !.ball = r.a,
                     !.state = "GameOver"]
             ELSE ctrl

\* wall_check that never tests the top wall
wall_check_open_top(ctrl, i) ==
    IF ctrl.state = "GameOver" \/ i = 0
    THEN ctrl
    ELSE LET r == check_collision(ctrl.ball, walls[i])
         IN  IF r.collision
             THEN [ctrl EXCEPT
                     !.final_score = ctrl.score,
                     !.ball = set_physics_velocity(r.a, Pt(0, 0)),
                     !.state = "GameOver"]
             ELSE ctrl

\* one iteration of the wall loop; the loop is left (break) once a wall
\* has been hit, which is when state has become GameOver
wall_check(ctrl, i) ==
    IF ctrl.state = "GameOver"
    THEN ctrl
    ELSE LET r == check_collision(ctrl.ball, walls[i])
         IN  IF r.collision
             THEN [ctrl EXCEPT
                     !.final_score = ctrl.score,
                     !.ball = set_physics_velocity(r.a, Pt(0, 0)),
                     !.state = "GameOver"]
             ELSE ctrl

\* state_ball_moving advancing the ball before it looks at the button
state_ball_moving_moves_first(ctrl, button1_pressed) ==
    LET c0 == [ctrl EXCEPT !.ball = update(@)]
    IN  IF button1_pressed
        THEN [c0 EXCEPT
                !.paused_ball_velocity = get_physics_velocity(c0.ball),
                !.ball = set_physics_velocity(@, Pt(0, 0)),
                !.state = "Paused"]
        ELSE LET c1 == paddle_check(paddle_check(
                           paddle_check(paddle_check(c0, 0), 1), 2), 3)
             IN  wall_check(wall_check(
                     wall_check(wall_check(c1, 0), 1), 2), 3)

\* state_ball_moving testing the walls before the paddles
state_ball_moving_walls_first(ctrl, button1_pressed) ==
    IF button1_pressed
    THEN [ctrl EXCEPT
            !.paused_ball_velocity = get_physics_velocity(ctrl.ball),
            !.ball = set_physics_velocity(@, Pt(0, 0)),
            !.state = "Paused"]
    ELSE LET c0 == [ctrl EXCEPT !.ball = update(@)]
             c1 == wall_check(wall_check(
                       wall_check(wall_check(c0, 0), 1), 2), 3)
         IN  paddle_check(paddle_check(
                 paddle_check(paddle_check(c1, 0), 1), 2), 3)

state_ball_moving(ctrl, button1_pressed) ==
    IF button1_pressed
    THEN [ctrl EXCEPT
            !.paused_ball_velocity = get_physics_velocity(ctrl.ball),
            !.ball = set_physics_velocity(@, Pt(0, 0)),
            !.state = "Paused"]
    ELSE LET c0 == [ctrl EXCEPT !.ball = update(@)]
             c1 == paddle_check(paddle_check(
                       paddle_check(paddle_check(c0, 0), 1), 2), 3)
         IN  wall_check(wall_check(wall_check(wall_check(c1, 0), 1), 2), 3)

\* state_paused that enters the countdown without arming the timer
state_paused_skips_timer(ctrl, button1_pressed) ==
    IF button1_pressed THEN [ctrl EXCEPT !.state = "Countdown"] ELSE ctrl

state_paused(ctrl, button1_pressed) ==
    IF button1_pressed
    THEN [ctrl EXCEPT !.countdown_timer = COUNTDOWN_FRAMES,
                      !.state = "Countdown"]
    ELSE ctrl

\* state_countdown testing for zero before it decrements
state_countdown_tests_first(ctrl) ==
    IF ctrl.countdown_timer = 0
    THEN [ctrl EXCEPT
            !.ball = set_physics_velocity(@, ctrl.paused_ball_velocity),
            !.state = "BallMoving"]
    ELSE [ctrl EXCEPT !.countdown_timer = @ - 1]

\* state_countdown that already moves the ball in the frame of the resume
state_countdown_resumes_moving(ctrl) ==
    LET t == IF ctrl.countdown_timer > 0 THEN ctrl.countdown_timer - 1
             ELSE ctrl.countdown_timer
    IN  IF t = 0
        THEN [ctrl EXCEPT
                !.countdown_timer = t,
                !.ball = update(set_physics_velocity(
                                    @, ctrl.paused_ball_velocity)),
                !.state = "BallMoving"]
        ELSE [ctrl EXCEPT !.countdown_timer = t]

state_countdown(ctrl) ==
    LET t == IF ctrl.countdown_timer > 0 THEN ctrl.countdown_timer - 1
             ELSE ctrl.countdown_timer
    IN  IF t = 0
        THEN [ctrl EXCEPT
                !.countdown_timer = t,
                !.ball = set_physics_velocity(@, ctrl.paused_ball_velocity),
                !.state = "BallMoving"]
        ELSE [ctrl EXCEPT !.countdown_timer = t]

\* state_game_over restarting the round directly
state_game_over_skips_title(ctrl, button1_pressed) ==
    IF button1_pressed THEN [ctrl EXCEPT !.state = "BallAtRest"] ELSE ctrl

state_game_over(ctrl, button1_pressed) ==
    IF button1_pressed THEN [ctrl EXCEPT !.state = "Title"] ELSE ctrl

\* the switch on ctrl->state
state_machine(ctrl, button1_pressed, seed) ==
    CASE ctrl.state = "Title" -> state_title(ctrl, button1_pressed)
      [] ctrl.state = "BallAtRest" ->
            state_ball_at_rest(ctrl, button1_pressed, seed)
      [] ctrl.state = "BallMoving" -> state_ball_moving(ctrl, button1_pressed)
      [] ctrl.state = "Paused" -> state_paused(ctrl, button1_pressed)
      [] ctrl.state = "Countdown" -> state_countdown(ctrl)
      [] ctrl.state = "GameOver" -> state_game_over(ctrl, button1_pressed)

\* decrement_cooldowns counting down two at a time
decrement_cooldowns_by_two(ctrl) ==
    [ctrl EXCEPT !.paddle_collision_cooldown =
        [i \in Paddle |-> IF @[i] > 1 THEN @[i] - 2 ELSE 0]]

\* decrement_cooldowns that runs only while the ball is in play
decrement_cooldowns_in_play_only(ctrl) ==
    IF ctrl.state = "BallMoving"
    THEN [ctrl EXCEPT !.paddle_collision_cooldown =
            [i \in Paddle |-> IF @[i] > 0 THEN @[i] - 1 ELSE @[i]]]
    ELSE ctrl

decrement_cooldowns(ctrl) ==
    [ctrl EXCEPT !.paddle_collision_cooldown =
        [i \in Paddle |-> IF @[i] > 0 THEN @[i] - 1 ELSE @[i]]]

\* draw_game_controller: a countdown digit that changes one frame late
countdown_num_late(timer) ==
    IF timer >= 24 THEN 3 ELSE IF timer >= 12 THEN 2 ELSE 1

\* draw_game_controller: the digit drawn in the Countdown state
countdown_num(timer) == IF timer > 24 THEN 3 ELSE IF timer > 12 THEN 2 ELSE 1

\* frame_tail that never records the button sample
frame_tail_forgets_button(ctrl, button1_current, raw_x) ==
    LET pressed == button_edge(button1_current, ctrl.button1_prev_state)
    IN  decrement_cooldowns(state_machine(ctrl, pressed, raw_x))

\* the tail shared by both builds: edge detection, state machine, previous
\* button state, cooldown decrement
frame_tail(ctrl, button1_current, raw_x) ==
    LET pressed == button_edge(button1_current, ctrl.button1_prev_state)
        c1 == state_machine(ctrl, pressed, raw_x)
        c2 == [c1 EXCEPT !.button1_prev_state = button1_current]
    IN  decrement_cooldowns(c2)

\* game_controller.c: the pipeline runs in every state
update_game_controller(ctrl, in) ==
    frame_tail(paddle_pipeline(ctrl, in.raw_x, in.raw_y, in.button2),
               in.button1, in.raw_x)

\* a gate that lets the pipeline run in every state but Paused and Countdown
pipeline_gate_freezes_pause_only(st) == st # "Paused" /\ st # "Countdown"

\* the gated build: the pipeline runs in BallAtRest and BallMoving only
pipeline_gate(st) == st = "BallAtRest" \/ st = "BallMoving"

update_game_controller_gated(ctrl, in) ==
    frame_tail(IF pipeline_gate(ctrl.state)
               THEN paddle_pipeline(ctrl, in.raw_x, in.raw_y, in.button2)
               ELSE ctrl,
               in.button1, in.raw_x)

(***************************************************************************)
(* The state machine of the model                                          *)
(***************************************************************************)
\* the fields of the GameController, and:
\* calls_since_score[i], a history variable that counts the calls of
\* update_game_controller since the frame in which paddle i last scored (it
\* stops counting at PADDLE_COLLISION_COOLDOWN_FRAMES, its initial value);
\* probe, the call of a function of the physics layer or of the input
\* pipeline taken on its own: its name, its arguments and, once it has
\* returned, its result
VARIABLES state, score, final_score, paddle_collision_cooldown,
          paddle_current_velocity_x, paddle_current_velocity_y,
          paused_ball_velocity, countdown_timer, button1_prev_state,
          paddles, ball, calls_since_score, probe

gameVars == <<state, score, final_score, paddle_collision_cooldown,
              paddle_current_velocity_x, paddle_current_velocity_y,
              paused_ball_velocity, countdown_timer, button1_prev_state,
              paddles, ball, calls_since_score>>

vars == <<gameVars, probe>>

\* the GameController as a record
Ctrl ==
    [state |-> state, score |-> score, final_score |-> final_score,
     paddle_collision_cooldown |-> paddle_collision_cooldown,
     paddle_current_velocity_x |-> paddle_current_velocity_x,
     paddle_current_velocity_y |-> paddle_current_velocity_y,
     paused_ball_velocity |-> paused_ball_velocity,
     countdown_timer |-> countdown_timer,
     button1_prev_state |-> button1_prev_state,
     paddles |-> paddles, ball |-> ball]

\* paddle i scored in the frame that led from the controller c0 to c1: only
\* a hit takes its cooldown from 0 to a nonzero value
ScoredIn(c0, c1, i) ==
    /\ c0.paddle_collision_cooldown[i] = 0
    /\ c1.paddle_collision_cooldown[i] > 0

\* the controller c after a frame becomes the state
Store(c) ==
    /\ state' = c.state
    /\ score' = c.score
    /\ final_score' = c.final_score
    /\ paddle_collision_cooldown' = c.paddle_collision_cooldown
    /\ paddle_current_velocity_x' = c.paddle_current_velocity_x
    /\ paddle_current_velocity_y' = c.paddle_current_velocity_y
    /\ paused_ball_velocity' = c.paused_ball_velocity
    /\ countdown_timer' = c.countdown_timer
    /\ button1_prev_state' = c.button1_prev_state
    /\ paddles' = c.paddles
    /\ ball' = c.ball
    /\ calls_since_score' =
          [i \in Paddle |->
              IF ScoredIn(Ctrl, c, i) THEN 0
              ELSE IF calls_since_score[i] < PADDLE_COLLISION_COOLDOWN_FRAMES
                   THEN calls_since_score[i] + 1
                   ELSE calls_since_score[i]]

\* samples of the input controller.  The joystick is held in one corner
\* (raw_x and raw_y near full scale, which drives the four paddles to
\* h_paddle_min_x and v_paddle_min_y) and the boost button is up; the low
\* bits of raw_x, which pick the launch direction, vary (4095 launches the
\* ball along DIRECTIONS[7], 4092 along DIRECTIONS[4])
JoyX == {4095 - 3 * k : k \in 0..SeedSpread}

JoyY == {4095}

Inputs ==
    [button1 : {0, 1}, button2 : {0}, raw_x : JoyX, raw_y : JoyY]

\* the gated build is explored with the boost button free as well
InputsGated ==
    [button1 : {0, 1}, button2 : {0, 1}, raw_x : JoyX, raw_y : JoyY]

\* a round is followed while fewer than MaxScore hits have been scored
ScoreInBounds == ~(state = "BallMoving" /\ score >= MaxScore)

Init ==
    LET c == init_game_controller
    IN  /\ state = c.state
        /\ score = c.score
        /\ final_score = c.final_score
        /\ paddle_collision_cooldown = c.paddle_collision_cooldown
        /\ paddle_current_velocity_x = c.paddle_current_velocity_x
        /\ paddle_current_velocity_y = c.paddle_current_velocity_y
        /\ paused_ball_velocity = c.paused_ball_velocity
        /\ countdown_timer = c.countdown_timer
        /\ button1_prev_state = c.button1_prev_state
        /\ paddles = c.paddles
        /\ ball = c.ball
        /\ calls_since_score =
              [i \in Paddle |-> PADDLE_COLLISION_COOLDOWN_FRAMES]

\* no function is probed while the game runs
NoProbe == [fn |-> "none", args |-> <<>>, out |-> <<>>]

GameInit == Init /\ probe = NoProbe

\* one call of update_game_controller (game_controller.c)
Frame ==
    /\ ScoreInBounds
    /\ \E in \in Inputs : Store(update_game_controller(Ctrl, in))
    /\ UNCHANGED probe

\* one call of update_game_controller (the gated build)
FrameGated ==
    /\ ScoreInBounds
    /\ \E in \in InputsGated : Store(update_game_controller_gated(Ctrl, in))
    /\ UNCHANGED probe

\* the joystick pushed a quarter of the way to either side on both axes
\* (target velocity 2 or -2, doubled by the boost), the boost button free,
\* the primary button up
InputsTitle ==
    [button1 : {0}, button2 : {0, 1},
     raw_x : {1536, 2560}, raw_y : {1536, 2560}]

\* one call of update_game_controller (game_controller.c) on the title
\* screen with the primary button up: the paddles follow the joystick
FrameTitle ==
    /\ state = "Title"
    /\ \E in \in InputsTitle : Store(update_game_controller(Ctrl, in))
    /\ UNCHANGED probe

\* the joystick thrown from one corner to the opposite one along the
\* diagonal (both axes read 0 or both read 4095), the boost button free,
\* the primary button up
InputsPaddles ==
    {[button1 |-> 0, button2 |-> b, raw_x |-> r, raw_y |-> r] :
        b \in {0, 1}, r \in {0, 4095}}

\* one call of update_game_controller (game_controller.c) on the title
\* screen with the primary button up and the joystick at full deflection
FramePaddles ==
    /\ state = "Title"
    /\ \E in \in InputsPaddles : Store(update_game_controller(Ctrl, in))
    /\ UNCHANGED probe

\* the joystick held hard over along X and centred along Y: the horizontal
\* paddles run to h_paddle_max_x, the vertical ones stay centred, and the low
\* bits of raw_x launch the ball along DIRECTIONS[0] or DIRECTIONS[5]; a ball
\* launched along DIRECTIONS[0] bounces off the bottom paddle and then meets
\* the lower end of the right paddle
InputsRally ==
    [button1 : {0, 1}, button2 : {0}, raw_x : {0, 5}, raw_y : {ADC_CENTER}]

\* one call of update_game_controller (game_controller.c) with these samples
FrameRally ==
    /\ ScoreInBounds
    /\ \E in \in InputsRally : Store(update_game_controller(Ctrl, in))
    /\ UNCHANGED probe

Next == Frame

NextGated == FrameGated

NextTitle == FrameTitle

NextPaddles == FramePaddles

NextRally == FrameRally

Spec == GameInit /\ [][Next]_vars

SpecGated == GameInit /\ [][NextGated]_vars

SpecTitle == GameInit /\ [][NextTitle]_vars

SpecPaddles == GameInit /\ [][NextPaddles]_vars

SpecRally == GameInit /\ [][NextRally]_vars

(***************************************************************************)
(* Vocabulary of the properties                                            *)
(***************************************************************************)
\* the frame sees a rising edge of the primary button: button1_prev_state
\* is the previous reading and becomes the current one
Edge == button1_prev_state = 0 /\ button1_prev_state' = 1

\* the ball b is in contact with one of the four walls
WallContact(b) == \E i \in 0..3 : ShapesInContact(b, walls[i])

\* the paddles among ps that are off cooldown (cd) and in contact with b
PaddleHits(b, ps, cd) ==
    {i \in Paddle : cd[i] = 0 /\ ShapesInContact(b, ps[i])}

\* a cooldown one frame later when nothing but the decrement touches it
Decremented(c) == IF c > 0 THEN c - 1 ELSE 0

(***************************************************************************)
(* C1: the transitions of the game state                                   *)
(***************************************************************************)
\* C1: with a rising edge of the primary button the state goes
\* Title->BallAtRest, BallAtRest->BallMoving, BallMoving->Paused,
\* Paused->Countdown, GameOver->Title and nowhere else; in Countdown the
\* edge has no influence (the next state is decided by the timer alone);
\* without an edge the state changes only by Countdown->BallMoving (timer
\* reaches 0) and BallMoving->GameOver (exactly when the moved ball touches
\* a wall).
C1_Transitions ==
    [][/\ (Edge /\ state = "Title") => state' = "BallAtRest"
       /\ (Edge /\ state = "BallAtRest") => state' = "BallMoving"
       /\ (Edge /\ state = "BallMoving") => state' = "Paused"
       /\ (Edge /\ state = "Paused") => state' = "Countdown"
       /\ (Edge /\ state = "GameOver") => state' = "Title"
       /\ state = "Countdown" =>
             state' = IF countdown_timer <= 1 THEN "BallMoving"
                      ELSE "Countdown"
       /\ (~Edge /\ state \in {"Title", "BallAtRest", "Paused", "GameOver"})
             => state' = state
       /\ (~Edge /\ state = "BallMoving") =>
             state' = IF WallContact(update(ball)) THEN "GameOver"
                      ELSE "BallMoving"]_vars

\* a press has taken a finished round back to the title screen
C1_Witness == state = "Title" /\ button1_prev_state = 1 /\ final_score > 0

(***************************************************************************)
(* C2: the countdown after a pause                                         *)
(***************************************************************************)
\* C2: a button edge in Paused sets countdown_timer to 36 and enters
\* Countdown; a Countdown frame starts with a timer in 1..36, and whatever
\* the inputs are it stays in Countdown with the timer one lower while the
\* timer is above 1 (the 35 calls after the press) and enters BallMoving
\* when the timer is 1 (the 36th call), the ball then getting the velocity
\* saved in paused_ball_velocity, which no Paused or Countdown frame
\* changes.
C2_Countdown ==
    [][/\ (state = "Paused" /\ Edge) =>
             state' = "Countdown" /\ countdown_timer' = 36
       /\ state \in {"Paused", "Countdown"} =>
             paused_ball_velocity' = paused_ball_velocity
       /\ state = "Countdown" =>
             /\ countdown_timer \in 1..36
             /\ countdown_timer > 1 =>
                   /\ state' = "Countdown"
                   /\ countdown_timer' = countdown_timer - 1
             /\ countdown_timer = 1 =>
                   /\ state' = "BallMoving"
                   /\ countdown_timer' = 0
                   /\ ball'.velocity = paused_ball_velocity]_vars

\* a countdown has run out and the ball flies with the saved velocity
C2_Witness ==
    /\ state = "BallMoving"
    /\ paused_ball_velocity # Pt(0, 0)
    /\ ball.velocity = paused_ball_velocity
    /\ countdown_timer = 0

(***************************************************************************)
(* C3: wall contact ends the round                                         *)
(***************************************************************************)
\* C3: in a BallMoving frame without a button edge, if the ball touches one
\* of the four walls after its move, the frame ends in GameOver with ball
\* velocity (0,0) and with final_score equal to the score as it stood before
\* the wall test, that is the score after the paddle hits of this frame; the
\* wall contact itself adds nothing to score.
C3_WallContact ==
    [][(state = "BallMoving" /\ ~Edge /\ WallContact(update(ball))) =>
          /\ state' = "GameOver"
          /\ ball'.velocity = Pt(0, 0)
          /\ score' = score + Cardinality(PaddleHits(update(ball), paddles',
                                          paddle_collision_cooldown))
          /\ final_score' = score']_vars

\* a round has ended on a wall in the very frame of a paddle hit
C3_Witness ==
    /\ state = "GameOver"
    /\ final_score >= 1
    /\ \E i \in Paddle : calls_since_score[i] = 0

(***************************************************************************)
(* C4: starting a round from the title screen                              *)
(***************************************************************************)
\* C4: a button edge in Title ends the frame in BallAtRest with score 0,
\* the ball at (SCREEN_WIDTH/2, SCREEN_HEIGHT/2) with velocity (0,0) and
\* all four cooldowns 0, whatever these fields held before.
C4_TitleReset ==
    [][(state = "Title" /\ Edge) =>
          /\ state' = "BallAtRest"
          /\ score' = 0
          /\ ball'.position = Pt(SCREEN_WIDTH \div 2, SCREEN_HEIGHT \div 2)
          /\ ball'.velocity = Pt(0, 0)
          /\ \A i \in Paddle : paddle_collision_cooldown'[i] = 0]_vars

\* a new round has been set up after a round that had scored
C4_Witness ==
    /\ state = "BallAtRest"
    /\ button1_prev_state = 1
    /\ final_score >= 1
    /\ score = 0
    /\ ball.position = BallCenter

(***************************************************************************)
(* C5: pausing has priority over physics                                   *)
(***************************************************************************)
\* C5: a button edge in BallMoving copies the ball velocity to
\* paused_ball_velocity, zeroes the ball velocity and enters Paused; the
\* ball is not advanced and no collision is tested: the ball position,
\* score and final_score are unchanged and no cooldown is started.
C5_PausePriority ==
    [][(state = "BallMoving" /\ Edge) =>
          /\ state' = "Paused"
          /\ paused_ball_velocity' = ball.velocity
          /\ ball'.velocity = Pt(0, 0)
          /\ ball'.position = ball.position
          /\ ball'.origin = ball.origin
          /\ score' = score
          /\ final_score' = final_score
          /\ \A i \in Paddle :
                paddle_collision_cooldown'[i] =
                    Decremented(paddle_collision_cooldown[i])]_vars

\* the game was paused in the frame in which the ball would have reached a
\* wall
C5_Witness ==
    /\ state = "Paused"
    /\ WallContact(move(ball, paused_ball_velocity))

C7_AsStated ==
    [][\A i \in Paddle :
          /\ paddle_collision_cooldown'[i] >= 0
          /\ paddle_collision_cooldown[i] > 0 =>
                paddle_collision_cooldown'[i] >=
                    paddle_collision_cooldown[i] - 1]_vars

\* C7 amended: a cooldown is never below 0 and, when nonzero at the start
\* of a frame, is lower by at most 1 at its end, except in the frame of the
\* Title->BallAtRest transition, which resets every cooldown to 0.
C7_Cooldown ==
    [][\A i \in Paddle :
          /\ paddle_collision_cooldown'[i] >= 0
          /\ (paddle_collision_cooldown[i] > 0 /\ ~(state = "Title" /\ Edge))
                => paddle_collision_cooldown'[i] >=
                       paddle_collision_cooldown[i] - 1
          /\ (state = "Title" /\ Edge) =>
                paddle_collision_cooldown'[i] = 0]_vars

\* a round has been set up while a cooldown of the round before was still
\* running: three calls after a hit the counter is 0 instead of 4
C7_Witness ==
    /\ state = "BallAtRest"
    /\ \E i \in Paddle :
          /\ calls_since_score[i] = 3
          /\ paddle_collision_cooldown[i] = 0

(***************************************************************************)
(* C8: the length of the cooldown                                          *)
(***************************************************************************)
\* C8 as stated: in each of the 8 calls that follow the frame in which the
\* ball scored against paddle i, paddle i is not collision-tested (the
\* paddle loop of a BallMoving frame without a button edge skips it because
\* its cooldown is not 0).
C8_EightCalls ==
    [][\A i \in Paddle :
          (calls_since_score[i] < PADDLE_COLLISION_COOLDOWN_FRAMES
           /\ state = "BallMoving" /\ ~Edge)
             => paddle_collision_cooldown[i] # 0]_vars

\* the 8th call after a hit starts, in the same round, with the cooldown
\* of that paddle already at 0
C8_Witness ==
    /\ state = "BallMoving"
    /\ \E i \in Paddle :
          /\ calls_since_score[i] = PADDLE_COLLISION_COOLDOWN_FRAMES - 1
          /\ paddle_collision_cooldown[i] = 0
          /\ score >= 1

(***************************************************************************)
(* C9: the gated build ignores paddle input in Title and GameOver          *)
(***************************************************************************)
\* C9: in the gated build a frame that starts in Title or GameOver leaves
\* the position and velocity of all four paddles and
\* paddle_current_velocity_x/y unchanged, whatever joystick and boost
\* button read.
C9_NoPaddleInput ==
    [][(state = "Title" \/ state = "GameOver") =>
          /\ \A i \in Paddle : paddles'[i].position = paddles[i].position
          /\ \A i \in Paddle : paddles'[i].velocity = paddles[i].velocity
          /\ paddle_current_velocity_x' = paddle_current_velocity_x
          /\ paddle_current_velocity_y' = paddle_current_velocity_y]_vars

\* the Title frame that set up the first round has left the paddles where
\* init_game_controller put them, with the joystick held in a corner
C9_Witness ==
    /\ state = "BallAtRest"
    /\ button1_prev_state = 1
    /\ paddles = InitPaddles
    /\ paddle_current_velocity_x = 0
    /\ paddle_current_velocity_y = 0

(***************************************************************************)
(* C10: the paused game                                                    *)
(***************************************************************************)
\* C10 as stated: a call of update_game_controller (game_controller.c) that
\* starts in Paused changes neither the position of the ball nor the
\* position of any paddle.
C10_PausedFrozen ==
    [][(state = "Paused") =>
          /\ ball'.position = ball.position
          /\ \A i \in Paddle :
                paddles'[i].position = paddles[i].position]_vars

\* the game is paused while the paddles are still on their way
C10_Witness ==
    /\ state = "Paused"
    /\ paddles[0].position.x > h_paddle_min_x
    /\ paddle_current_velocity_x < 0

(***************************************************************************)
(* C11: the paddles never overlap                                          *)
(***************************************************************************)
\* the rectangle of a centre-anchored object in unbounded integers
TrueBox(obj) ==
    [left |-> obj.origin.x - obj.shape.width \div 2,
     right |-> obj.origin.x + obj.shape.width \div 2,
     top |-> obj.origin.y - obj.shape.height \div 2,
     bottom |-> obj.origin.y + obj.shape.height \div 2]

Min(a, b) == IF a < b THEN a ELSE b

Max(a, b) == IF a > b THEN a ELSE b

\* the intersection of two boxes has positive width and positive height
Overlap(p, q) ==
    /\ Min(p.right, q.right) - Max(p.left, q.left) > 0
    /\ Min(p.bottom, q.bottom) - Max(p.top, q.top) > 0

\* C11: at the end of every frame the rectangle of each horizontal paddle
\* (top, bottom) and the rectangle of each vertical paddle (left, right),
\* resolved from their centre anchors, do not overlap: their intersection
\* never has both positive width and positive height.
C11_NoOverlap ==
    \A h \in {0, 1} : \A v \in {2, 3} :
        ~Overlap(TrueBox(paddles[h]), TrueBox(paddles[v]))

\* the top paddle and the left paddle have both been pushed into their
\* common corner, where their rectangles meet in one point
C11_Witness ==
    /\ paddles[0].position.x = h_paddle_min_x
    /\ paddles[2].position.y = v_paddle_min_y
    /\ paddle_current_velocity_x < 0
    /\ paddle_current_velocity_y < 0

(***************************************************************************)
(* C12: the acceleration step                                              *)
(***************************************************************************)
\* raw samples over the whole range of the ADC, with the edges of the
\* deadzone and the breakpoints of the curve
JoySweep ==
    {0, 512, 1024, 1536, 2038, 2039, ADC_CENTER, 2057, 2058, 2560, 3072,
     3584, 4095}

\* new is at most one acceleration step away from prev, lies between prev
\* and target, and is prev when prev is the target
StepTowards(prev, new, target) ==
    /\ Abs(new - prev) <= PADDLE_ACCELERATION
    /\ \/ prev <= new /\ new <= target
       \/ target <= new /\ new <= prev
    /\ prev = target => new = prev

\* C12: whatever sample the input pipeline reads in a frame, on each axis
\* the new paddle_current_velocity differs from the previous one by at most
\* PADDLE_ACCELERATION, lies between the previous value and the target
\* velocity inclusive, and is unchanged if the previous value is the target.
C12_AccelerationStep ==
    \A raw \in JoySweep : \A b \in {0, 1} :
        /\ StepTowards(paddle_current_velocity_x,
                       accelerate_axis(paddle_current_velocity_x, raw, b),
                       target_velocity(raw, b))
        /\ StepTowards(paddle_current_velocity_y,
                       accelerate_axis(paddle_current_velocity_y, raw, b),
                       target_velocity(raw, b))

\* the paddles are on their way from one boosted target velocity to the
\* opposite one
C12_Witness ==
    /\ paddle_current_velocity_x = 2
    /\ paddle_current_velocity_y = -2
    /\ paddles[0].position.x < SCREEN_WIDTH \div 2
    /\ state = "Title"

(***************************************************************************)
(* The joystick functions on their own: a call is drawn at the start and   *)
(* one action per function evaluates it                                    *)
(***************************************************************************)
ADC_MAX == 4095

\* the largest magnitude map_to_velocity is written for
ADC_HALF_RANGE == 2048

InitJoystick ==
    /\ Init
    /\ \/ \E raw \in 0..ADC_MAX, b \in {0, 1} :
              probe = [fn |-> "target_velocity", args |-> <<raw, b>>,
                       out |-> <<>>]
       \/ \E n \in -ADC_HALF_RANGE..ADC_HALF_RANGE :
              probe = [fn |-> "map_to_velocity", args |-> <<n>>,
                       out |-> <<>>]

\* lines 276-295 for one axis: the normalized reading and the target
CallTargetVelocity ==
    /\ probe.fn = "target_velocity"
    /\ probe.out = <<>>
    /\ probe' = [probe EXCEPT !.out =
                    <<normalize_adc(probe.args[1]),
                      target_velocity(probe.args[1], probe.args[2])>>]
    /\ UNCHANGED gameVars

CallMapToVelocity ==
    /\ probe.fn = "map_to_velocity"
    /\ probe.out = <<>>
    /\ probe' = [probe EXCEPT !.out = <<map_to_velocity(probe.args[1])>>]
    /\ UNCHANGED gameVars

NextJoystick == CallTargetVelocity \/ CallMapToVelocity

SpecJoystick == InitJoystick /\ [][NextJoystick]_vars

Returned(fn) == probe.fn = fn /\ probe.out # <<>>

(***************************************************************************)
(* C13                                                                     *)
(***************************************************************************)
\* C13: for every raw reading r with |r - 2048| < 10, normalize_adc returns 0
\* and the target velocity of the axis is exactly 0, with the boost button
\* released or held.
C13_Deadzone ==
    (Returned("target_velocity") /\
     Abs(probe.args[1] - ADC_CENTER) < JOYSTICK_DEADZONE)
        => probe.out = <<0, 0>>

C13_Witness ==
    /\ Returned("target_velocity")
    /\ probe.args = <<ADC_CENTER + JOYSTICK_DEADZONE - 1, 1>>
    /\ probe.out = <<0, 0>>

(***************************************************************************)
(* C14                                                                     *)
(***************************************************************************)
SameSign(m, n) == (m >= 0 /\ n >= 0) \/ (m <= 0 /\ n <= 0)

\* C14: map_to_velocity is monotone in magnitude over 0..2048 (a larger
\* magnitude of the same sign never gives a smaller speed, the breakpoints
\* 512 and 1536 included) and odd: map_to_velocity(-m) = -map_to_velocity(m).
C14_MonotoneOdd ==
    Returned("map_to_velocity") =>
        LET m == probe.args[1]
            v == probe.out[1]
        IN  /\ \A n \in -ADC_HALF_RANGE..ADC_HALF_RANGE :
                   (SameSign(m, n) /\ Abs(n) >= Abs(m))
                       => Abs(map_to_velocity(n)) >= Abs(v)
            /\ map_to_velocity(-m) = -v

C14_Witness ==
    /\ Returned("map_to_velocity")
    /\ probe.args = <<-PADDLE_DEFLECTION_LOW>>
    /\ probe.out = <<-PADDLE_SPEED_LOW>>

(***************************************************************************)
(* The collision functions on their own: a call is drawn at the start and  *)
(* one action per function evaluates it                                    *)
(***************************************************************************)
\* circle centres: aligned pairs, a 6-8-10 triangle, the far corner
CirclePoints == {Pt(x, y) : x \in {0, 1, 6, 9, 255}, y \in {0, 8, 255}}

\* radii up to half the diagonal of the 0..255 coordinate square
CircleRadii == {0, 3, 5, 180}

\* rectangle origins: on the screen and close to both ends of uint8_t
RectPoints == {Pt(x, y) : x \in {0, 3, 10, 250}, y \in {0, 10, 250}}

\* a square, a wide and a tall rectangle (the paddles' dimensions)
RectSizes ==
    {<<10, 10>>, <<PADDLE_LENGTH, PADDLE_WIDTH>>, <<PADDLE_WIDTH, PADDLE_LENGTH>>}

Anchors == {"top_left", "bottom_left", "center"}

\* velocity components: the ball's, zero and the ends of int8_t
VelocityComponents == {-128, -2, 0, 1, 127}

CircleObject(position, radius, velocity) ==
    init_physics(position, velocity, CircleShape(radius), "ball_hit")

RectObject(position, size, anchor) ==
    init_physics(position, Pt(0, 0), RectShape(size[1], size[2], anchor),
                 "wall_hit")

Circles ==
    {CircleObject(p, r, Pt(0, 0)) : p \in CirclePoints, r \in CircleRadii}

Rects == {RectObject(p, z, a) : p \in RectPoints, z \in RectSizes, a \in Anchors}

Disabled(obj) == [obj EXCEPT !.collision_enabled = 0]

\* the objects handed to check_collision: both shapes, enabled or not
CollisionObjects ==
    LET cs == {CircleObject(p, 3, Pt(2, 1)) :
                  p \in {Pt(x, y) : x \in {0, 6, 9}, y \in {0, 8}}}
        rs == {RectObject(p, <<10, 10>>, a) :
                  p \in {Pt(x, y) : x \in {0, 3, 10}, y \in {0, 10}},
                  a \in Anchors}
    IN  cs \cup rs \cup {Disabled(CircleObject(Pt(6, 8), 3, Pt(2, 1))),
                         Disabled(RectObject(Pt(3, 10), <<10, 10>>, "center"))}

MovingCircles ==
    {CircleObject(p, 3, Pt(vx, vy)) :
        p \in CirclePoints, vx \in VelocityComponents,
        vy \in VelocityComponents}

BounceOthers ==
    {RectObject(Pt(10, 10), z, a) : z \in RectSizes, a \in Anchors}
    \cup {CircleObject(p, 3, Pt(0, 0)) : p \in CirclePoints}

\* circles on the 128x64 screen: its corners, and radii whose sums reach
\* the diagonal (143)
ScreenCircles ==
    {CircleObject(Pt(x, y), r, Pt(0, 0)) :
        x \in {0, 6, SCREEN_WIDTH - 1}, y \in {0, 8, SCREEN_HEIGHT - 1},
        r \in {0, 5, 71, 72}}

Call(fn, a, b) == [fn |-> fn, args |-> <<a, b>>, out |-> <<>>]

InitCollision ==
    /\ Init
    /\ \/ \E a \in Circles, b \in Circles :
              probe = Call("check_circle_circle_collision", a, b)
       \/ \E a \in Circles, b \in Rects :
              probe = Call("check_circle_rect_collision", a, b)
       \/ \E a \in Rects, b \in Rects :
              probe = Call("check_rect_rect_collision", a, b)
       \/ \E a \in CollisionObjects, b \in CollisionObjects :
              probe = Call("check_collision", a, b)
       \/ \E a \in MovingCircles, b \in BounceOthers :
              probe = Call("collision_bounce", a, b)
       \/ \E a \in MovingCircles, b \in BounceOthers :
              probe = Call("collision_none", a, b)
       \/ \E a \in ScreenCircles, b \in ScreenCircles :
              probe = Call("check_circle_circle_collision_16", a, b)

CallCircleCircle ==
    /\ probe.fn = "check_circle_circle_collision"
    /\ probe.out = <<>>
    /\ probe' = [probe EXCEPT !.out =
          <<check_circle_circle_collision(probe.args[1], probe.args[2])>>]
    /\ UNCHANGED gameVars

CallCircleRect ==
    /\ probe.fn = "check_circle_rect_collision"
    /\ probe.out = <<>>
    /\ probe' = [probe EXCEPT !.out =
          <<check_circle_rect_collision(probe.args[1], probe.args[2])>>]
    /\ UNCHANGED gameVars

CallRectRect ==
    /\ probe.fn = "check_rect_rect_collision"
    /\ probe.out = <<>>
    /\ probe' = [probe EXCEPT !.out =
          <<check_rect_rect_collision(probe.args[1], probe.args[2])>>]
    /\ UNCHANGED gameVars

CallCheckCollision ==
    /\ probe.fn = "check_collision"
    /\ probe.out = <<>>
    /\ probe' = [probe EXCEPT !.out =
          <<check_collision(probe.args[1], probe.args[2]).collision,
            check_collision(probe.args[1], probe.args[2]).a,
            check_collision(probe.args[1], probe.args[2]).b>>]
    /\ UNCHANGED gameVars

\* the callback applied once, and once more to its own result
CallBounce ==
    /\ probe.fn = "collision_bounce"
    /\ probe.out = <<>>
    /\ probe' = [probe EXCEPT !.out =
          <<collision_bounce(probe.args[1], probe.args[2]),
            collision_bounce(collision_bounce(probe.args[1], probe.args[2]),
                             probe.args[2])>>]
    /\ UNCHANGED gameVars

CallNone ==
    /\ probe.fn = "collision_none"
    /\ probe.out = <<>>
    /\ probe' = [probe EXCEPT !.out =
          <<collision_none(probe.args[1], probe.args[2])>>]
    /\ UNCHANGED gameVars

CallCircleCircle16 ==
    /\ probe.fn = "check_circle_circle_collision_16"
    /\ probe.out = <<>>
    /\ probe' = [probe EXCEPT !.out =
          <<check_circle_circle_collision_16(probe.args[1], probe.args[2])>>]
    /\ UNCHANGED gameVars

NextCollision ==
    \/ CallCircleCircle
    \/ CallCircleRect
    \/ CallRectRect
    \/ CallCheckCollision
    \/ CallBounce
    \/ CallNone
    \/ CallCircleCircle16

SpecCollision == InitCollision /\ [][NextCollision]_vars

(***************************************************************************)
(* C15                                                                     *)
(***************************************************************************)
\* C15: for any two objects, check_collision(A, B) and check_collision(B, A)
\* evaluated in the same state return the same value, for circle-circle,
\* circle-rectangle, rectangle-circle and rectangle-rectangle pairings.
C15_Symmetric ==
    Returned("check_collision") =>
        probe.out[1] = check_collision(probe.args[2], probe.args[1]).collision

C15_Witness ==
    /\ Returned("check_collision")
    /\ probe.args[1].shape.type = "rect"
    /\ probe.args[2].shape.type = "circle"
    /\ probe.out[1] = TRUE

(***************************************************************************)
(* C16                                                                     *)
(***************************************************************************)
\* C16: check_circle_circle_collision reports contact exactly when
\* dx*dx + dy*dy <= (r1 + r2)*(r1 + r2) in exact integer arithmetic:
\* centres at distance r1 + r2 are in contact, at distance r1 + r2 + 1 they
\* are not, and nothing overflows for coordinates 0..255 and a radius sum up
\* to the screen diagonal.
C16_ExactDistance ==
    Returned("check_circle_circle_collision") =>
        LET a == probe.args[1]
            b == probe.args[2]
            dx == a.position.x - b.position.x
            dy == a.position.y - b.position.y
            rs == a.shape.radius + b.shape.radius
        IN  /\ probe.out[1] = (dx * dx + dy * dy <= rs * rs)
            /\ (dy = 0 /\ Abs(dx) = rs) => probe.out[1] = TRUE
            /\ (dy = 0 /\ Abs(dx) = rs + 1) => probe.out[1] = FALSE

\* a 6-8-10 triangle between two circles of radius 5: contact on the boundary
C16_Witness ==
    /\ Returned("check_circle_circle_collision")
    /\ probe.args[1].position = Pt(0, 0)
    /\ probe.args[2].position = Pt(6, 8)
    /\ probe.args[1].shape.radius = 5
    /\ probe.args[2].shape.radius = 5
    /\ probe.out = <<TRUE>>

(***************************************************************************)
(* C17                                                                     *)
(***************************************************************************)
\* the corners of a rectangle as integers, without the wrap of Point
TrueCorners(origin, rect) ==
    CASE rect.anchor = "top_left" ->
            [left |-> origin.x, top |-> origin.y,
             right |-> origin.x + rect.width,
             bottom |-> origin.y + rect.height]
      [] rect.anchor = "bottom_left" ->
            [left |-> origin.x, top |-> origin.y - rect.height,
             right |-> origin.x + rect.width, bottom |-> origin.y]
      [] rect.anchor = "center" ->
            [left |-> origin.x - CDiv(rect.width, 2),
             top |-> origin.y - CDiv(rect.height, 2),
             right |-> origin.x + CDiv(rect.width, 2),
             bottom |-> origin.y + CDiv(rect.height, 2)]

\* the closest-point test of a circle against a box given by its corners
ClosestPointTest(center, radius, c) ==
    LET closest_x == Max(c.left, Min(center.x, c.right))
        closest_y == Max(c.top, Min(center.y, c.bottom))
        dx == center.x - closest_x
        dy == center.y - closest_y
    IN  dx * dx + dy * dy <= radius * radius

\* C17: the result of check_circle_rect_collision equals the closest-point
\* test carried out on the rectangle's true, unclamped integer corners,
\* also when a true corner is negative or lies beyond the screen.
C17_TrueGeometry ==
    Returned("check_circle_rect_collision") =>
        probe.out[1] =
            ClosestPointTest(probe.args[1].origin, probe.args[1].shape.radius,
                             TrueCorners(probe.args[2].origin,
                                         probe.args[2].shape))

\* a centre-anchored 20x2 rectangle at (3, 10) has its true left edge at -7;
\* the circle of radius 3 at (6, 8) touches it, and no contact is reported
C17_Witness ==
    /\ Returned("check_circle_rect_collision")
    /\ probe.args[1].origin = Pt(6, 8)
    /\ probe.args[1].shape.radius = 3
    /\ probe.args[2].origin = Pt(3, 10)
    /\ probe.args[2].shape = RectShape(PADDLE_LENGTH, PADDLE_WIDTH, "center")
    /\ TrueCorners(probe.args[2].origin, probe.args[2].shape).left < 0
    /\ probe.out = <<FALSE>>

(***************************************************************************)
(* C18                                                                     *)
(***************************************************************************)
\* one box lies wholly before the other on some axis
Separated(a, b) ==
    \/ a.right < b.left
    \/ b.right < a.left
    \/ a.bottom < b.top
    \/ b.bottom < a.top

OnScreen(c) ==
    /\ 0 <= c.left /\ c.right <= 255
    /\ 0 <= c.top /\ c.bottom <= 255

\* C18: check_rect_rect_collision reports contact exactly when the closed
\* x-intervals and the closed y-intervals of the two anchor-resolved
\* rectangles both intersect: no contact exactly when one rectangle's maximum
\* is strictly below the other's minimum on some axis, so rectangles that
\* only touch along an edge are in contact.
C18_ClosedIntervals ==
    Returned("check_rect_rect_collision") =>
        LET a == RectCorners(probe.args[1].origin, probe.args[1].shape)
            b == RectCorners(probe.args[2].origin, probe.args[2].shape)
            ta == TrueCorners(probe.args[1].origin, probe.args[1].shape)
            tb == TrueCorners(probe.args[2].origin, probe.args[2].shape)
        IN  /\ probe.out[1] = ~Separated(a, b)
            /\ (OnScreen(ta) /\ OnScreen(tb)) =>
                   probe.out[1] =
                       (/\ Max(ta.left, tb.left) <= Min(ta.right, tb.right)
                        /\ Max(ta.top, tb.top) <= Min(ta.bottom, tb.bottom))

\* [0,10]x[0,10] and [10,20]x[0,10] share only the edge x = 10
C18_Witness ==
    /\ Returned("check_rect_rect_collision")
    /\ probe.args[1] = RectObject(Pt(0, 0), <<10, 10>>, "top_left")
    /\ probe.args[2] = RectObject(Pt(10, 0), <<10, 10>>, "top_left")
    /\ probe.out = <<TRUE>>

(***************************************************************************)
(* C19                                                                     *)
(***************************************************************************)
\* negation as int8_t stores it: -128 has no positive counterpart
NegatedInt8(c) == IF c = -128 THEN -128 ELSE -c

\* velocity v with the component of one axis negated
Flipped(v, axis) == IF axis = "x" THEN Pt(-v.x, v.y) ELSE Pt(v.x, -v.y)

FlippedInt8(v, axis) ==
    IF axis = "x" THEN Pt(NegatedInt8(v.x), v.y) ELSE Pt(v.x, NegatedInt8(v.y))

\* the axis a rectangle reflects: tall ones x, wide and square ones y
RectAxis(rect) == IF rect.height > rect.width THEN "x" ELSE "y"

DeltaX(self, other) == Abs(self.position.x - other.position.x)

DeltaY(self, other) == Abs(self.position.y - other.position.y)

\* C20 as stated: against a circle collision_bounce negates the axis with
\* the smaller positional delta: velocity.x if |dx| < |dy|, velocity.y if
\* |dy| < |dx|; exactly one component is negated.
C20_AsStated ==
    (Returned("collision_bounce") /\ probe.args[2].shape.type = "circle") =>
        LET self == probe.args[1]
            other == probe.args[2]
        IN  /\ DeltaX(self, other) < DeltaY(self, other) =>
                   probe.out[1] =
                       [self EXCEPT !.velocity = FlippedInt8(@, "x")]
            /\ DeltaY(self, other) < DeltaX(self, other) =>
                   probe.out[1] =
                       [self EXCEPT !.velocity = FlippedInt8(@, "y")]

\* C20, amended: against a circle collision_bounce negates velocity.x when
\* |dx| > |dy| and velocity.y otherwise (equal deltas included): the axis of
\* the larger delta; exactly one component is negated.
C20_CircleBounce ==
    (Returned("collision_bounce") /\ probe.args[2].shape.type = "circle") =>
        LET self == probe.args[1]
            other == probe.args[2]
        IN  probe.out[1] =
                [self EXCEPT !.velocity =
                    FlippedInt8(@, IF DeltaX(self, other) > DeltaY(self, other)
                                   THEN "x" ELSE "y")]

\* dx = 9, dy = 0: the x component is the one negated
C20_Witness ==
    /\ Returned("collision_bounce")
    /\ probe.args[2].shape.type = "circle"
    /\ probe.args[1].position = Pt(9, 0)
    /\ probe.args[2].position = Pt(0, 0)
    /\ probe.args[1].velocity = Pt(-2, 1)
    /\ probe.out[1].velocity = Pt(2, 1)

(***************************************************************************)
(* C21                                                                     *)
(***************************************************************************)
BothEnabled(objA, objB) ==
    objA.collision_enabled # 0 /\ objB.collision_enabled # 0

\* C21: check_collision(A, B) returns 1 exactly when the shapes of A and B
\* are in contact; the callbacks run (A's with B as other, then B's with A
\* as other) exactly when there is contact and both objects have
\* collision_enabled; with either flag 0 no object changes.
C21_ContactAndCallbacks ==
    Returned("check_collision") =>
        LET objA == probe.args[1]
            objB == probe.args[2]
            contact == ShapesInContact(objA, objB)
            called == contact /\ BothEnabled(objA, objB)
        IN  /\ probe.out[1] = contact
            /\ probe.out[2] = IF called THEN Callback(objA, objB) ELSE objA
            /\ probe.out[3] =
                   IF called THEN Callback(objB, Callback(objA, objB))
                   ELSE objB

\* the circle of radius 3 at (6, 8) lies inside the square [0,10]x[0,10]
\* and has collisions disabled: 0 is returned
C21_Witness ==
    /\ Returned("check_collision")
    /\ probe.args[1] = Disabled(CircleObject(Pt(6, 8), 3, Pt(2, 1)))
    /\ probe.args[2] = RectObject(Pt(0, 0), <<10, 10>>, "top_left")
    /\ ShapesInContact(probe.args[1], probe.args[2])
    /\ probe.out[1] = FALSE

(***************************************************************************)
(* One physics object, or none, through a sequence of calls of the physics *)
(* layer.  probe.out[1] is the object after the last call, probe.args the  *)
(* object before it, the argument of the call and the number of calls.     *)
(***************************************************************************)
ObjectStarts ==
    {CircleObject(p, BALL_RADIUS, v) :
        p \in {Pt(1, 0), Pt(250, 60)}, v \in {Pt(2, 1), Pt(-2, -1)}}
    \cup {RectObject(Pt(64, 6), <<PADDLE_LENGTH, PADDLE_WIDTH>>, "center")}

\* the other object of a check_collision: absent, without a shape, or whole
Others ==
    {NULL, destroy(CircleObject(Pt(1, 0), BALL_RADIUS, Pt(0, 0))),
     CircleObject(Pt(250, 60), BALL_RADIUS, Pt(0, 0))}

InitObject ==
    /\ Init
    /\ \/ probe = [fn |-> "none", args |-> <<NULL, <<>>, 0>>, out |-> <<NULL>>]
       \/ \E o \in ObjectStarts :
              probe = [fn |-> "init_physics", args |-> <<NULL, <<>>, 0>>,
                       out |-> <<o>>]

DoMove ==
    /\ probe.args[3] < MaxOps
    /\ \E delta \in {Pt(1, 0), Pt(-3, -128)} :
          probe' = [fn |-> "move",
                    args |-> <<probe.out[1], delta, probe.args[3] + 1>>,
                    out |-> <<move(probe.out[1], delta)>>]
    /\ UNCHANGED gameVars

DoUpdate ==
    /\ probe.args[3] < MaxOps
    /\ probe' = [fn |-> "update",
                 args |-> <<probe.out[1], <<>>, probe.args[3] + 1>>,
                 out |-> <<update(probe.out[1])>>]
    /\ UNCHANGED gameVars

DoSetPosition ==
    /\ probe.args[3] < MaxOps
    /\ \E p \in {BallCenter, Pt(255, 255)} :
          probe' = [fn |-> "set_physics_position",
                    args |-> <<probe.out[1], p, probe.args[3] + 1>>,
                    out |-> <<set_physics_position(probe.out[1], p)>>]
    /\ UNCHANGED gameVars

DoSetVelocity ==
    /\ probe.args[3] < MaxOps
    /\ \E v \in {Pt(0, 0), Pt(127, -128)} :
          probe' = [fn |-> "set_physics_velocity",
                    args |-> <<probe.out[1], v, probe.args[3] + 1>>,
                    out |-> <<set_physics_velocity(probe.out[1], v)>>]
    /\ UNCHANGED gameVars

DoSetCollisionEnabled ==
    /\ probe.args[3] < MaxOps
    /\ \E e \in {0, 1} :
          probe' = [fn |-> "set_physics_collision_enabled",
                    args |-> <<probe.out[1], e, probe.args[3] + 1>>,
                    out |-> <<set_physics_collision_enabled(probe.out[1], e)>>]
    /\ UNCHANGED gameVars

\* the three getters, called one after the other
DoGet ==
    /\ probe.args[3] < MaxOps
    /\ probe' = [fn |-> "get_physics",
                 args |-> <<probe.out[1], <<>>, probe.args[3] + 1>>,
                 out |-> <<probe.out[1],
                           get_physics_position(probe.out[1]),
                           get_physics_velocity(probe.out[1]),
                           get_physics_collision_enabled(probe.out[1])>>]
    /\ UNCHANGED gameVars

\* check_collision with the object as objA (swapped: as objB)
DoCheckCollision ==
    /\ probe.args[3] < MaxOps
    /\ \E other \in Others, swapped \in BOOLEAN :
          LET r == IF swapped THEN check_collision(other, probe.out[1])
                   ELSE check_collision(probe.out[1], other)
          IN  probe' = [fn |-> "check_collision",
                        args |-> <<probe.out[1], <<other, swapped>>,
                                   probe.args[3] + 1>>,
                        out |-> <<IF swapped THEN r.b ELSE r.a, r.collision,
                                  IF swapped THEN r.a ELSE r.b>>]
    /\ UNCHANGED gameVars

NextObject ==
    \/ DoMove
    \/ DoUpdate
    \/ DoSetPosition
    \/ DoSetVelocity
    \/ DoSetCollisionEnabled
    \/ DoGet
    \/ DoCheckCollision

SpecObject == InitObject /\ [][NextObject]_vars

(***************************************************************************)
(* C22                                                                     *)
(***************************************************************************)
\* C22: after any sequence of init_physics, move, update and
\* set_physics_position calls the origin of the shape equals the position;
\* update adds the velocity to the position (in uint8_t) and leaves velocity
\* and acceleration unchanged; the acceleration is (0,0) throughout.
C22_OriginFollows ==
    /\ probe.out[1] # NULL =>
           /\ probe.out[1].origin = probe.out[1].position
           /\ probe.out[1].acceleration = Pt(0, 0)
    /\ (probe.fn = "update" /\ probe.args[1] # NULL) =>
           LET before == probe.args[1]
               sum == Pt((before.position.x + before.velocity.x) % 256,
                         (before.position.y + before.velocity.y) % 256)
           IN  probe.out[1] =
                   [before EXCEPT !.position = sum, !.origin = sum]

\* the third call is an update that takes the ball from (1, 0) across the
\* edge of uint8_t
C22_Witness ==
    /\ probe.fn = "update"
    /\ probe.args[3] = MaxOps
    /\ probe.args[1] # NULL
    /\ probe.args[1].position = Pt(1, 0)
    /\ probe.args[1].velocity = Pt(-2, -1)
    /\ probe.out[1].position = Pt(255, 255)
    /\ probe.out[1].origin = Pt(255, 255)

(***************************************************************************)
(* C25                                                                     *)
(***************************************************************************)
Absent(obj) == obj = NULL \/ obj.shape = NoShape

\* C25: with obj == NULL the setters, move and update change nothing, the
\* getters return (0,0), (0,0) and 0, and check_collision returns 0 and runs
\* no callback when either object, or the shape of either, is NULL.
C25_NullSafe ==
    /\ (/\ probe.args[1] = NULL
        /\ probe.fn \in {"move", "update", "set_physics_position",
                         "set_physics_velocity",
                         "set_physics_collision_enabled"}) =>
           probe.out[1] = NULL
    /\ (probe.args[1] = NULL /\ probe.fn = "get_physics") =>
           probe.out = <<NULL, Pt(0, 0), Pt(0, 0), 0>>
    /\ (/\ probe.fn = "check_collision"
        /\ Absent(probe.args[1]) \/ Absent(probe.args[2][1])) =>
           /\ probe.out[2] = FALSE
           /\ probe.out[1] = probe.args[1]
           /\ probe.out[3] = probe.args[2][1]

C25_Witness ==
    /\ probe.fn = "get_physics"
    /\ probe.args[3] = MaxOps
    /\ probe.args[1] = NULL
    /\ probe.out = <<NULL, Pt(0, 0), Pt(0, 0), 0>>

(***************************************************************************)
(* C23                                                                     *)
(***************************************************************************)
\* joystick X samples with every value of the low three bits, from both ends
\* and the middle of the ADC range
LaunchSeeds == (0..7) \cup (ADC_CENTER..ADC_CENTER + 7) \cup (ADC_MAX - 7..ADC_MAX)

\* C23: in the frame that takes BallAtRest to BallMoving the ball velocity
\* becomes DIRECTIONS[raw_x & 7], raw_x being the joystick X sample of that
\* frame; each of the 8 launch velocities has both components nonzero; the
\* ball position does not change in that frame.
C23_Launch ==
    /\ \A k \in 1..8 : DIRECTIONS[k].x # 0 /\ DIRECTIONS[k].y # 0
    /\ state = "BallAtRest" =>
           \A raw \in LaunchSeeds, b1 \in {0, 1}, b2 \in {0, 1} :
               LET c == update_game_controller(Ctrl,
                            [button1 |-> b1, button2 |-> b2, raw_x |-> raw,
                             raw_y |-> ADC_MAX])
               IN  c.state = "BallMoving" =>
                       /\ c.ball.velocity = DIRECTIONS[(raw % 8) + 1]
                       /\ c.ball.position = ball.position

\* just launched with the sample 4092: 4092 & 7 = 4, the fifth entry
C23_Witness ==
    /\ state = "BallMoving"
    /\ button1_prev_state = 1
    /\ ball.position = BallCenter
    /\ ball.velocity = Pt(-2, -1)

(***************************************************************************)
(* C24                                                                     *)
(***************************************************************************)
\* C24: after the Title->BallAtRest transition the ball and all four paddles
\* are centred: the horizontal paddles at x = SCREEN_WIDTH/2, the vertical
\* ones at y = SCREEN_HEIGHT/2, wherever they were when the button was
\* pressed.
C24_PaddlesCentred ==
    [][(state = "Title" /\ state' = "BallAtRest") =>
           /\ ball'.position = BallCenter
           /\ paddles'[0].position.x = SCREEN_WIDTH \div 2
           /\ paddles'[1].position.x = SCREEN_WIDTH \div 2
           /\ paddles'[2].position.y = SCREEN_HEIGHT \div 2
           /\ paddles'[3].position.y = SCREEN_HEIGHT \div 2]_vars

\* the round has started with the horizontal paddles against their limit
C24_Witness ==
    /\ state = "BallAtRest"
    /\ button1_prev_state = 1
    /\ score = 0
    /\ ball.position = BallCenter
    /\ paddles[0].position.x \in {h_paddle_min_x, h_paddle_max_x}
    /\ paddles[2].position.y \in {v_paddle_min_y, v_paddle_max_y}

(***************************************************************************)
(* C26                                                                     *)
(***************************************************************************)
\* C26 as stated: a cooldown that is nonzero is lower by one at the end of
\* every call of update_game_controller, whatever the state: in Title,
\* BallAtRest, Paused, Countdown and GameOver frames as well.
C26_AsStated ==
    [][\A i \in Paddle :
          paddle_collision_cooldown[i] > 0 =>
              paddle_collision_cooldown'[i] =
                  paddle_collision_cooldown[i] - 1]_vars

\* C26, amended: a cooldown that is nonzero at the start of a call is lower
\* by one at its end whatever the state, except in the Title frame that
\* starts a round, whose reset leaves it at 0.
C26_EveryState ==
    [][\A i \in Paddle :
          paddle_collision_cooldown[i] > 0 =>
              paddle_collision_cooldown'[i] =
                  IF state = "Title" /\ state' = "BallAtRest" THEN 0
                  ELSE paddle_collision_cooldown[i] - 1]_vars

\* a cooldown still running two frames into a countdown
C26_Witness ==
    /\ state = "Countdown"
    /\ countdown_timer = COUNTDOWN_FRAMES - 1
    /\ \E i \in Paddle : paddle_collision_cooldown[i] > 0

(***************************************************************************)
(* C27                                                                     *)
(***************************************************************************)
\* C27: during one countdown the digit drawn after each update is 3 while
\* the timer runs from 36 to 25, 2 from 24 to 13 and 1 from 12 to 1, twelve
\* consecutive frames each: the timer starts at 36, goes down by one per
\* frame and the countdown ends from 1; the digit never increases and none
\* is drawn with the timer at 0.
C27_Digits ==
    [][/\ state' = "Countdown" =>
            /\ countdown_timer' \in 1..COUNTDOWN_FRAMES
            /\ countdown_num(countdown_timer') =
                   (IF countdown_timer' \in 25..36 THEN 3
                    ELSE IF countdown_timer' \in 13..24 THEN 2 ELSE 1)
            /\ IF state = "Countdown"
               THEN /\ countdown_timer' = countdown_timer - 1
                    /\ countdown_num(countdown_timer') <=
                           countdown_num(countdown_timer)
               ELSE countdown_timer' = COUNTDOWN_FRAMES
       /\ (state = "Countdown" /\ state' # "Countdown") =>
            countdown_timer = 1 /\ countdown_timer' = 0]_vars

\* the last frame on which the digit 2 is drawn
C27_Witness ==
    /\ state = "Countdown"
    /\ countdown_timer = 13
    /\ countdown_num(countdown_timer) = 2

(***************************************************************************)
(* C28                                                                     *)
(***************************************************************************)
\* C28: at full deflection either way (raw samples 0 and 4095) the unboosted
\* target velocities are +8 and -8 (PADDLE_SPEED_HIGH); at the magnitudes
\* 512 and 1536 the speeds are 2 and 4.
C28_FullDeflection ==
    (Returned("target_velocity") /\ probe.args[2] = 0) =>
        LET raw == probe.args[1]
            target == probe.out[2]
        IN  /\ raw = 0 => target = PADDLE_SPEED_HIGH
            /\ raw = ADC_MAX => target = -PADDLE_SPEED_HIGH
            /\ Abs(raw - ADC_CENTER) = PADDLE_DEFLECTION_LOW =>
                   Abs(target) = PADDLE_SPEED_LOW
            /\ Abs(raw - ADC_CENTER) = PADDLE_DEFLECTION_MID =>
                   Abs(target) = PADDLE_SPEED_MID

\* the sample 4095 normalizes to 2047, one short of the top of the curve
C28_Witness ==
    /\ Returned("target_velocity")
    /\ probe.args = <<ADC_MAX, 0>>
    /\ probe.out = <<2047, -7>>

(***************************************************************************)
(* C29                                                                     *)
(***************************************************************************)
\* C29: for every raw sample 0..4095 the unboosted target has magnitude at
\* most MAX_PADDLE_SPEED; with the boost held the target is exactly
\* PADDLE_SPEED_BOOST_MULTIPLIER times the unboosted one, of magnitude at
\* most 16: the product fits int8_t and the clamp to +-127 changes nothing.
C29_Boost ==
    Returned("target_velocity") =>
        LET unboosted == map_to_velocity(-normalize_adc(probe.args[1]))
            product == unboosted * PADDLE_SPEED_BOOST_MULTIPLIER
        IN  /\ Abs(unboosted) <= MAX_PADDLE_SPEED
            /\ probe.args[2] = 0 => probe.out[2] = unboosted
            /\ probe.args[2] = 1 =>
                   /\ probe.out[2] = product
                   /\ Abs(product) <= 16
                   /\ product = ToInt8(product)

C29_Witness ==
    /\ Returned("target_velocity")
    /\ probe.args = <<0, 1>>
    /\ probe.out[2] = 16

(***************************************************************************)
(* C30                                                                     *)
(***************************************************************************)
\* C30: in the variant of physics.c with int16_t accumulators, for circle
\* centres on the 128x64 screen and a radius sum up to the diagonal of that
\* screen, dx*dx + dy*dy and radius_sum*radius_sum stay within int16_t and
\* check_circle_circle_collision returns exactly
\* dx*dx + dy*dy <= (r1 + r2)*(r1 + r2).
C30_SixteenBitsSuffice ==
    Returned("check_circle_circle_collision_16") =>
        LET a == probe.args[1]
            b == probe.args[2]
            dx == a.position.x - b.position.x
            dy == a.position.y - b.position.y
            rs == a.shape.radius + b.shape.radius
        IN  (/\ a.position.x < SCREEN_WIDTH /\ b.position.x < SCREEN_WIDTH
             /\ a.position.y < SCREEN_HEIGHT /\ b.position.y < SCREEN_HEIGHT
             /\ rs * rs <= SCREEN_WIDTH * SCREEN_WIDTH +
                              SCREEN_HEIGHT * SCREEN_HEIGHT) =>
                /\ dx * dx + dy * dy <= 32767
                /\ rs * rs <= 32767
                /\ probe.out[1] = (dx * dx + dy * dy <= rs * rs)

\* opposite corners of the screen, radius sum 143: 20098 <= 20449
C30_Witness ==
    /\ Returned("check_circle_circle_collision_16")
    /\ probe.args[1].position = Pt(0, 0)
    /\ probe.args[2].position = Pt(SCREEN_WIDTH - 1, SCREEN_HEIGHT - 1)
    /\ probe.args[1].shape.radius + probe.args[2].shape.radius = 143
    /\ probe.out = <<TRUE>>

(***************************************************************************)
(* C31                                                                     *)
(***************************************************************************)
\* C31: at the end of every frame the ball's velocity is nonzero exactly
\* when the state is BallMoving: it is (0,0) in Title, BallAtRest, Paused,
\* Countdown and GameOver, and in BallMoving the magnitudes of its two
\* components are 1 and 2 in some order (a launch direction up to the sign
\* flips of the bounces; a resume restores the saved velocity).
C31_BallVelocity ==
    /\ (ball.velocity # Pt(0, 0)) <=> (state = "BallMoving")
    /\ state = "BallMoving" =>
          {Abs(ball.velocity.x), Abs(ball.velocity.y)} = {1, 2}
    /\ state \in {"Paused", "Countdown"} =>
          {Abs(paused_ball_velocity.x), Abs(paused_ball_velocity.y)} = {1, 2}

\* the ball is under way again after a bounce off a paddle and a pause, with
\* the velocity that the pause had saved
C31_Witness ==
    /\ state = "BallMoving"
    /\ score >= 1
    /\ button1_prev_state = 0
    /\ paused_ball_velocity = ball.velocity

(***************************************************************************)
(* C32                                                                     *)
(***************************************************************************)
\* C32: countdown_timer always lies in 0..36, and at the end of every frame
\* it is positive exactly when the state is Countdown: it is 0 in the five
\* other states, and the state never stays Countdown with the timer at 0.
C32_TimerRange ==
    /\ countdown_timer \in 0..COUNTDOWN_FRAMES
    /\ (countdown_timer > 0) <=> (state = "Countdown")

\* the last frame of a countdown: the timer is at 1 and the state is still
\* Countdown
C32_Witness ==
    /\ state = "Countdown"
    /\ countdown_timer = 1
    /\ paused_ball_velocity # Pt(0, 0)

(***************************************************************************)
(* C33                                                                     *)
(***************************************************************************)
\* C33: at the end of every call of update_game_controller, in every state,
\* button1_prev_state is the button sample of that call; hence no two
\* consecutive calls both make a button-driven transition (any change of
\* state but Countdown->BallMoving and BallMoving->GameOver), and a call
\* that reads the button down when the call before it did so too makes none.
\* Checked in every reachable state over two calls in a row, the joystick
\* held between them.
C33_OneTransitionPerPress ==
    \A in1 \in Inputs, b2 \in {0, 1} :
        LET in2 == [in1 EXCEPT !.button1 = b2]
            c1 == update_game_controller(Ctrl, in1)
            c2 == update_game_controller(c1, in2)
            driven(a, b) ==
                /\ a.state # b.state
                /\ ~(a.state = "Countdown" /\ b.state = "BallMoving")
                /\ ~(a.state = "BallMoving" /\ b.state = "GameOver")
        IN  /\ c1.button1_prev_state = in1.button1
            /\ c2.button1_prev_state = in2.button1
            /\ ~(driven(Ctrl, c1) /\ driven(c1, c2))
            /\ (in1.button1 = 1 /\ in2.button1 = 1) => ~driven(c1, c2)
            /\ driven(Ctrl, c1) =>
                  (button1_prev_state = 0 /\ in1.button1 = 1)

\* the button that launched the ball is still down one frame later: the
\* ball has made its first step and goes on moving; it has never been paused
C33_Witness ==
    /\ state = "BallMoving"
    /\ button1_prev_state = 1
    /\ score = 0
    /\ paused_ball_velocity = Pt(0, 0)
    /\ ball.position.x = BallCenter.x + ball.velocity.x
    /\ ball.position.y = BallCenter.y + ball.velocity.y

(***************************************************************************)
(* C34                                                                     *)
(***************************************************************************)
\* C34: the ball's position changes only in BallMoving frames without a
\* button edge, by exactly the ball's velocity, and in the Title frame that
\* starts a round, which puts it at the centre; every frame that starts in
\* BallAtRest, Paused, Countdown or GameOver leaves it alone, the frame
\* that ends the countdown included, and so does the frame that pauses.
C34_BallPosition ==
    [][/\ (state = "BallMoving" /\ ~Edge) =>
              /\ ball'.position.x = ball.position.x + ball.velocity.x
              /\ ball'.position.y = ball.position.y + ball.velocity.y
       /\ (state = "BallMoving" /\ Edge) => ball'.position = ball.position
       /\ state \in {"BallAtRest", "Paused", "Countdown", "GameOver"} =>
              ball'.position = ball.position
       /\ state = "Title" =>
              ball'.position = IF Edge THEN BallCenter ELSE ball.position
      ]_vars

\* a countdown about to end after a bounce: the ball has been waiting away
\* from the centre through the pause and 35 frames of countdown
C34_Witness ==
    /\ state = "Countdown"
    /\ countdown_timer = 1
    /\ score >= 1
    /\ ball.position # BallCenter
    /\ paused_ball_velocity # Pt(0, 0)

(***************************************************************************)
(* C35                                                                     *)
(***************************************************************************)
\* C35: in the 128x64 configuration, at the end of every frame the top and
\* bottom paddles have the same x within [h_paddle_min_x, h_paddle_max_x],
\* the left and right paddles have the same y within [v_paddle_min_y,
\* v_paddle_max_y], the fixed coordinate of each paddle is the one it was
\* given at initialization, and the sum of the unsigned 8-bit position and
\* the velocity of the frame (at most 16 either way) stays within 0..255:
\* the position does not wrap around before it is clamped.
C35_PaddlesInBounds ==
    [][/\ paddles'[0].position.x = paddles'[1].position.x
       /\ paddles'[0].position.x \in h_paddle_min_x..h_paddle_max_x
       /\ paddles'[2].position.y = paddles'[3].position.y
       /\ paddles'[2].position.y \in v_paddle_min_y..v_paddle_max_y
       /\ paddles'[0].position.y = h_paddle_y_top
       /\ paddles'[1].position.y = h_paddle_y_bottom
       /\ paddles'[2].position.x = v_paddle_x_left
       /\ paddles'[3].position.x = v_paddle_x_right
       /\ Abs(paddle_current_velocity_x') <= 16
       /\ Abs(paddle_current_velocity_y') <= 16
       /\ \A i \in {0, 1} :
             paddles[i].position.x + paddle_current_velocity_x' \in 0..255
       /\ \A i \in {2, 3} :
             paddles[i].position.y + paddle_current_velocity_y' \in 0..255
      ]_vars

\* the paddles are held against their lower limits by the clamp while the
\* boosted velocity still pulls them on at 14 pixels per frame
C35_Witness ==
    /\ paddles[0].position.x = h_paddle_min_x
    /\ paddles[1].position.x = h_paddle_min_x
    /\ paddles[2].position.y = v_paddle_min_y
    /\ paddles[3].position.y = v_paddle_min_y
    /\ paddle_current_velocity_x = -14
    /\ paddle_current_velocity_y = -14

(***************************************************************************)
(* C36                                                                     *)
(***************************************************************************)
\* C36: final_score changes only in the frame that enters GameOver; while
\* the state is GameOver final_score equals score; and a paddle hit scored
\* in the frame of the wall contact is part of final_score, the paddles
\* being tested before the walls.
C36_FinalScore ==
    [][/\ final_score' # final_score =>
              (state = "BallMoving" /\ state' = "GameOver")
       /\ state' = "GameOver" => final_score' = score'
       /\ (state = "BallMoving" /\ state' = "GameOver") =>
              final_score' =
                  score + Cardinality({i \in Paddle :
                              /\ paddle_collision_cooldown[i] = 0
                              /\ paddle_collision_cooldown'[i] > 0})
      ]_vars

\* the round has just ended in a frame in which a paddle scored as well
C36_Witness ==
    /\ state = "GameOver"
    /\ \E i \in Paddle : calls_since_score[i] = 0
    /\ score >= 1
    /\ final_score = score

(***************************************************************************)
(* C37                                                                     *)
(***************************************************************************)
\* C37: the ball cannot tunnel through a wall or leave the screen.  At the
\* end of every frame in which the state is BallMoving, Paused or Countdown
\* the ball touches none of the four walls and its centre is strictly
\* inside the arena (further than the ball's radius from the inner face of
\* every wall); from there a step along any of the eight directions either
\* touches a wall or stays inside, without wrap-around of the unsigned 8-bit
\* coordinates; and a BallMoving frame without a button edge ends in
\* GameOver exactly when the moved ball touches a wall.
C37_NoTunnel ==
    LET inside(x, y) ==
            /\ x \in (WALL_THICKNESS + BALL_RADIUS)
                       ..(SCREEN_WIDTH - 1 - WALL_THICKNESS - BALL_RADIUS)
            /\ y \in (WALL_THICKNESS + BALL_RADIUS)
                       ..(SCREEN_HEIGHT - 1 - WALL_THICKNESS - BALL_RADIUS)
    IN  /\ state \in {"BallMoving", "Paused", "Countdown"} =>
              /\ ~WallContact(ball)
              /\ inside(ball.position.x, ball.position.y)
              /\ \A k \in 1..8 :
                    LET d == DIRECTIONS[k]
                        b == update(set_physics_velocity(ball, d))
                    IN  /\ b.position.x = ball.position.x + d.x
                        /\ b.position.y = ball.position.y + d.y
                        /\ WallContact(b) \/ inside(b.position.x, b.position.y)
        /\ state = "BallMoving" =>
              \A in \in Inputs :
                  ~button_edge(in.button1, button1_prev_state) =>
                      (WallContact(update(ball)) <=>
                          update_game_controller(Ctrl, in).state = "GameOver")

\* the ball is in play one step away from a wall: its next move brings it
\* into contact
C37_Witness ==
    /\ state = "BallMoving"
    /\ ~WallContact(ball)
    /\ WallContact(update(ball))

(***************************************************************************)
(* C38                                                                     *)
(***************************************************************************)
\* C38: scoring and deflection go together.  In a BallMoving frame without a
\* button edge, followed through the paddle loop one paddle at a time,
\* paddle i changes the ball's velocity exactly when it scores; a paddle
\* whose cooldown is nonzero at the start of the frame leaves score, ball
\* and cooldown as they are even when the ball overlaps it; and no
\* iteration changes the position or the velocity of a paddle, which at the
\* end of the frame are those the input pipeline has given it.
C38_ScoreIffDeflect ==
    state = "BallMoving" =>
        \A in \in InputsRally :
            ~button_edge(in.button1, button1_prev_state) =>
                LET p == paddle_pipeline(Ctrl, in.raw_x, in.raw_y, in.button2)
                    c0 == [p EXCEPT !.ball = update(@)]
                    c1 == paddle_check(c0, 0)
                    c2 == paddle_check(c1, 1)
                    c3 == paddle_check(c2, 2)
                    c4 == paddle_check(c3, 3)
                    iteration(a, b, i) ==
                        /\ (b.ball.velocity # a.ball.velocity)
                               <=> (b.score = a.score + 1)
                        /\ b.score \in {a.score, a.score + 1}
                        /\ paddle_collision_cooldown[i] > 0 => b = a
                        /\ b.paddles = a.paddles
                        /\ b.ball.position = a.ball.position
                    after == update_game_controller(Ctrl, in)
                IN  /\ iteration(c0, c1, 0)
                    /\ iteration(c1, c2, 1)
                    /\ iteration(c2, c3, 2)
                    /\ iteration(c3, c4, 3)
                    /\ after.score = c4.score
                    /\ after.paddles = p.paddles
                    /\ after.state = "BallMoving" =>
                           after.ball.velocity = c4.ball.velocity

\* in the frame after it scored on the end of a paddle the ball still
\* overlaps that paddle, whose cooldown is running
C38_Witness ==
    /\ state = "BallMoving"
    /\ \E i \in Paddle :
          /\ paddle_collision_cooldown[i] = PADDLE_COLLISION_COOLDOWN_FRAMES - 2
          /\ calls_since_score[i] = 1
          /\ ShapesInContact(ball, paddles[i])

(***************************************************************************)
(* C39                                                                     *)
(***************************************************************************)
\* C39: while the joystick and the boost button are held so that the target
\* velocity stays T, paddle_current_velocity, starting from v0, is T after
\* ceil(|T - v0| / PADDLE_ACCELERATION) runs of the input pipeline and in
\* every run after that; and its magnitude is at most 16 in every reachable
\* state.  Checked from every reachable velocity v0, for every sample of
\* JoySweep with and without boost, over the runs up to two past the bound.
C39_ReachesTarget ==
    /\ Abs(paddle_current_velocity_x) <= 16
    /\ Abs(paddle_current_velocity_y) <= 16
    /\ \A v0 \in {paddle_current_velocity_x, paddle_current_velocity_y} :
          \A raw \in JoySweep, b \in {0, 1} :
              LET target == target_velocity(raw, b)
                  n == (Abs(target - v0) + PADDLE_ACCELERATION - 1)
                           \div PADDLE_ACCELERATION
                  v[k \in 0..(n + 2)] ==
                      IF k = 0 THEN v0
                      ELSE accelerate_axis(v[k - 1], raw, b)
              IN  \A k \in n..(n + 2) : v[k] = target

\* the paddles run at the boosted full speed 16 against their upper limits,
\* the joystick having been thrown over from the opposite corner
C39_Witness ==
    /\ paddle_current_velocity_x = 16
    /\ paddle_current_velocity_y = 16
    /\ paddles[0].position.x = h_paddle_max_x
    /\ paddles[2].position.y = v_paddle_max_y

====
